---- MODULE Spec2Model ----
(***************************************************************************)
(* State-machine model of the stableguard (ChainWatch) ingestion engine:   *)
(* the per-chain indexer of src/src/indexer/chain.rs (backfill, HTTP and   *)
(* WebSocket live loops, reorg repair), the persistence layer of           *)
(* src/src/db/repository.rs, and the enrichment pipeline of                *)
(* src/src/pipeline.rs behind the supervisor's mutex (src/src/main.rs).    *)
(***************************************************************************)
EXTENDS Integers, Sequences, FiniteSets, TLC

(* ------------------------------ bounds -------------------------------- *)
\* highest block number the modelled node ever produces
MaxBlock == 3
\* number of chain reorganisations the node may perform
MaxReorgs == 1
\* number of RPC / database calls that may fail
MaxFaults == 1
\* number of process crashes followed by a restart
MaxRestarts == 1
\* greatest ChainConfig.batch_size of the modelled configurations
BatchSize == 2
\* ChainConfig.max_reorg_depth of the modelled configuration
ReorgDepth == 2
\* anomaly_detection.large_transfer_thresholds["default"] of the modelled configuration
LargeTransferThreshold == 2
\* number of invocation outcomes drawn for the operation handed to retry_rpc
MaxCalls == 7

\* number of chains in a configuration file handed to Config::load
MaxChains == 2
\* number of tokens of a chain in such a file
MaxTokens == 2
\* number of transfers the wallet tracker is given in one run
MaxTracked == 3

\* greatest number of seed_label calls of one start
MaxSeeds == 2

(* ----------------------------- constants ------------------------------ *)
\* retry_rpc: let mut delay = Duration::from_millis(500)
initial_delay_ms == 500
\* retry_rpc: let max_retries = 5
max_retries == 5
\* retry_rpc: Duration::from_secs(30)
max_delay_ms == 30000

\* Config::validate: token.address.len() != 42
address_len == 42

Chains == {1, 2}

(* ------------------------------ state --------------------------------- *)
VARIABLES
  node,              \* node[c]: canonical chain; node[c][b] = generation of block b
  announced,         \* announced[c]: headers the node pushed to newHeads subscribers
  transfers,         \* table transfers
  defi_events,       \* table defi_events
  block_hashes,      \* table block_hashes
  indexer_state,     \* table indexer_state: indexer_state[c] = <<>> or <<last_indexed_block>>
  wallet_graph_edges,\* table wallet_graph_edges
  wallet_first_seen, \* table wallet_first_seen
  known,             \* WalletTracker.known (in memory, inside the pipeline)
  holders,           \* tasks holding the Arc<Mutex<TransferPipeline>> guard
  cfg,               \* cfg[c]: the ChainConfig of chain c
  pc,                \* pc[c]: position of chain c's indexer task
  loc,               \* loc[c]: local variables of chain c's indexer task
  faults, restarts, reorgs,  \* environment budgets used so far
  lastRollback,      \* lastRollback[c]: the rollback chain c's task has just performed
  owed,              \* blocks that were rolled back or failed and not processed since
  enrichedOnce,      \* batches on which enrich has already completed
  anomalies,         \* table anomalies
  transfers_id_seq,  \* last value of the sequence behind transfers.id
  handed,            \* handed[c]: highest block number handed to processing in this run
  aggregated,        \* <<edge key, block_timestamp>> of every transfer added to an edge
  shutdown,          \* the CancellationToken: TRUE once cancelled
  supervisor,        \* position of main: "waiting", "joining" or "exited"
  atCancel,          \* atCancel[c]: what chain c's task had in flight when shutdown was cancelled
  retry,             \* one call of retry_rpc: its locals and what it has done so far
  startup,           \* Config::load in main: the parsed file and what became of it
  call               \* one call of a function of the decoder or the anomaly rules

vars == <<node, announced, transfers, defi_events, block_hashes, indexer_state,
          wallet_graph_edges, wallet_first_seen, known, holders, cfg, pc, loc,
          faults, restarts, reorgs, lastRollback, owed, enrichedOnce,
          anomalies, transfers_id_seq, handed, aggregated, shutdown, supervisor, atCancel, retry,
          startup, call>>

store == <<transfers, defi_events, block_hashes, indexer_state,
           wallet_graph_edges, wallet_first_seen, anomalies, transfers_id_seq>>
env == <<node, announced, reorgs>>
ghost == <<lastRollback, owed, enrichedOnce, handed, aggregated>>
\* the supervisor's side: the token, main's position, one retry_rpc call
\* functions of the program applied on their own
unit == <<startup, call>>
aux == <<shutdown, supervisor, atCancel, retry, unit>>

(* ------------------------- the node (RPC side) ------------------------ *)
Min(a, b) == IF a <= b THEN a ELSE b
Max(a, b) == IF a >= b THEN a ELSE b

\* eth_blockNumber
get_block_number(c) == Len(node[c])

\* hash of block b of generation g; block 0 is the genesis block
HashOf(b, g) == <<b, g>>

\* header.timestamp of block b of generation g: later than the parent's on
\* every branch; the block of a newer branch carries an earlier timestamp
\* than the block it replaces
TimestampOf(b, g) == 10 * b - g

\* the header of block b on the chain ch
Header(ch, b) ==
  [number |-> b,
   hash   |-> HashOf(b, ch[b]),
   timestamp |-> TimestampOf(b, ch[b]),
   parent |-> IF b = 1 THEN HashOf(0, 0) ELSE HashOf(b - 1, ch[b - 1])]

\* eth_getBlockByNumber: the header of block b as the node sees it now
HeaderOf(c, b) == Header(node[c], b)

\* number of watched-token Transfer logs in block b of generation g
LogCount(b, g) == (b + 2 * g) % 3

\* the decoded watched-token Transfer logs of block b, generation g
LogsOf(c, b, g) ==
  { [chain_id |-> c, tx_hash |-> <<b, g>>, log_index |-> i,
     block_number |-> b, block_hash |-> HashOf(b, g),
     from_address |-> IF (b + g + i) % 2 = 0 THEN "w1" ELSE "w2",
     to_address   |-> IF (b + g + i) % 2 = 0 THEN "w2" ELSE "w1",
     amount |-> i, token_symbol |-> "USDC", token_decimals |-> 0,
     block_timestamp |-> TimestampOf(b, g)] : i \in 1..LogCount(b, g) }

\* eth_getLogs over [from, to]: what the node holds for these numbers now
get_logs(c, from, to) ==
  UNION { LogsOf(c, b, node[c][b]) : b \in from..Min(to, Len(node[c])) }

\* DeFi events decoded from the receipts of the batch's transactions:
\* one event per transaction with an even block number
DefiOf(batch) ==
  { [chain_id |-> t.chain_id, tx_hash |-> t.tx_hash, log_index |-> 0,
     block_number |-> t.block_number] : t \in { u \in batch : u.block_number % 2 = 0 } }

(* ------------------------- persistence layer -------------------------- *)
None == <<>>
Some(x) == <<x>>

KeyOf(t) == <<t.chain_id, t.tx_hash, t.log_index>>
KeysOf(rows) == { KeyOf(t) : t \in rows }

\* position of t in the batch (the Vec is in log order)
Before(u, t) == \/ u.block_number < t.block_number
                \/ u.block_number = t.block_number /\ u.log_index < t.log_index
RankIn(batch, t) == Cardinality({ u \in batch : Before(u, t) }) + 1

WithId(t, id) ==
  [id |-> id, chain_id |-> t.chain_id, tx_hash |-> t.tx_hash, log_index |-> t.log_index,
   block_number |-> t.block_number, block_hash |-> t.block_hash,
   from_address |-> t.from_address, to_address |-> t.to_address, amount |-> t.amount,
   token_symbol |-> t.token_symbol, token_decimals |-> t.token_decimals,
   block_timestamp |-> t.block_timestamp]

\* a faulty variant: a plain INSERT, without the ON CONFLICT clause
insert_transfers_batch_noconflict(rows, batch, seq) ==
  rows \cup { WithId(t, seq + RankIn(batch, t)) : t \in batch }

\* INSERT ... ON CONFLICT (chain_id, tx_hash, log_index) DO NOTHING; the id of
\* a new row is the next value of the table's sequence, last value seq
insert_transfers_batch(rows, batch, seq) ==
  LET new == { t \in batch : KeyOf(t) \notin KeysOf(rows) }
  IN  rows \cup { WithId(t, seq + RankIn(new, t)) : t \in new }

\* SELECT last_indexed_block FROM indexer_state WHERE chain_id = c
get_last_indexed_block(state, c) == state[c]

\* INSERT ... ON CONFLICT (chain_id) DO UPDATE SET last_indexed_block = b
upsert_indexer_state(state, c, b) == [state EXCEPT ![c] = <<b>>]

\* INSERT ... ON CONFLICT (chain_id, block_number) DO UPDATE SET block_hash = h
upsert_block_hash(rows, c, b, h) ==
  { r \in rows : ~(r.chain_id = c /\ r.block_number = b) }
    \cup { [chain_id |-> c, block_number |-> b, block_hash |-> h] }

\* SELECT block_hash FROM block_hashes: the set of hashes found (none or one)
get_block_hash(rows, c, b) ==
  { r.block_hash : r \in { x \in rows : x.chain_id = c /\ x.block_number = b } }

\* a faulty variant: block_number > from_block
delete_transfers_above_block(rows, c, from_block) ==
  { r \in rows : ~(r.chain_id = c /\ r.block_number > from_block) }

\* DELETE FROM transfers WHERE chain_id = c AND block_number >= from_block
delete_transfers_from_block(rows, c, from_block) ==
  { r \in rows : ~(r.chain_id = c /\ r.block_number >= from_block) }

\* delete-defi-events-at-or-above(chain, block)
delete_defi_events_from_block(rows, c, from_block) ==
  { r \in rows : ~(r.chain_id = c /\ r.block_number >= from_block) }

\* idempotent insert of DeFi events keyed by (chain_id, tx_hash, log_index)
insert_defi_events_batch(rows, events) ==
  rows \cup { e \in events : KeyOf(e) \notin KeysOf(rows) }

\* DELETE FROM block_hashes WHERE chain_id = c AND block_number >= from_block
delete_block_hashes_from(rows, c, from_block) ==
  { r \in rows : ~(r.chain_id = c /\ r.block_number >= from_block) }

\* DELETE FROM block_hashes WHERE chain_id = c AND block_number < below_block
prune_block_hashes(rows, c, below_block) ==
  { r \in rows : ~(r.chain_id = c /\ r.block_number < below_block) }

\* a faulty variant: the walk does not stop at block_number - max_depth; it
\* goes down to block 0
find_fork_point_unbounded(rows, c, block_number, max_depth) ==
  LET have == { n \in 0..(block_number - 1) : get_block_hash(rows, c, n) = {} }
  IN  IF have = {} THEN 0
      ELSE (CHOOSE n \in have : \A m \in have : m <= n) + 1

\* the fork point find_fork_point returns: walking down from block_number - 1
\* to earliest, the first block with a stored hash, plus one; else earliest
find_fork_point(rows, c, block_number, max_depth) ==
  LET earliest == IF block_number > max_depth THEN block_number - max_depth ELSE 0
      have == { n \in earliest..(block_number - 1) : get_block_hash(rows, c, n) # {} }
  IN  IF have = {} THEN earliest
      ELSE (CHOOSE n \in have : \A m \in have : m <= n) + 1

(* ------------------------ enrichment pipeline ------------------------- *)
\* the batch as the Vec the pipeline iterates over
SeqOf(batch) ==
  [i \in 1..Cardinality(batch) |-> CHOOSE t \in batch : RankIn(batch, t) = i]

NewWalletEvent(t, addr, dir) ==
  [address |-> addr, chain_id |-> t.chain_id, first_seen_at |-> t.block_timestamp,
   first_block |-> t.block_number, first_tx_hash |-> t.tx_hash, direction |-> dir]

\* INSERT INTO wallet_first_seen ... ON CONFLICT (address, chain_id) DO NOTHING
upsert_first_seen(rows, e) ==
  IF \E r \in rows : r.address = e.address /\ r.chain_id = e.chain_id
  THEN rows ELSE rows \cup {e}

\* a faulty variant: the key is not inserted into the in-memory set
SeeSide_forgetful(st, t, addr, dir) ==
  IF <<addr, t.chain_id>> \in st.known THEN st
  ELSE [known |-> st.known,
        rows  |-> upsert_first_seen(st.rows, NewWalletEvent(t, addr, dir)),
        events |-> Append(st.events, NewWalletEvent(t, addr, dir))]

\* a faulty variant: every side of every transfer writes its row, replacing
\* the stored one
SeeSide_overwriting(st, t, addr, dir) ==
  [known |-> st.known \cup {<<addr, t.chain_id>>},
   rows  |-> { r \in st.rows : ~(r.address = addr /\ r.chain_id = t.chain_id) }
               \cup {NewWalletEvent(t, addr, dir)},
   events |-> st.events]

\* one side of one transfer in WalletTracker::process_transfers
SeeSide(st, t, addr, dir) ==
  IF <<addr, t.chain_id>> \in st.known THEN st
  ELSE [known |-> st.known \cup {<<addr, t.chain_id>>},
        rows  |-> upsert_first_seen(st.rows, NewWalletEvent(t, addr, dir)),
        events |-> Append(st.events, NewWalletEvent(t, addr, dir))]

RECURSIVE process_transfers(_, _, _)
\* WalletTracker::process_transfers over seq[i..], from state st
process_transfers(st, seq, i) ==
  IF i > Len(seq) THEN st
  ELSE process_transfers(
         SeeSide(SeeSide(st, seq[i], seq[i].from_address, "from"),
                 seq[i], seq[i].to_address, "to"),
         seq, i + 1)

\* WalletTracker::process_transfers when the first upsert_first_seen call fails:
\* the key is already in the in-memory set, no row is written
process_transfers_failing(kn, seq) ==
  LET sides == { <<i, d>> \in (1..Len(seq)) \X {1, 2} :
                   <<(IF d = 1 THEN seq[i].from_address ELSE seq[i].to_address),
                     seq[i].chain_id>> \notin kn }
      first == CHOOSE s \in sides : \A u \in sides :
                 s[1] < u[1] \/ (s[1] = u[1] /\ s[2] <= u[2])
  IN  kn \cup {<<(IF first[2] = 1 THEN seq[first[1]].from_address
                  ELSE seq[first[1]].to_address), seq[first[1]].chain_id>>}

HasNewWallet(kn, batch) ==
  \E t \in batch : <<t.from_address, t.chain_id>> \notin kn
                   \/ <<t.to_address, t.chain_id>> \notin kn

RECURSIVE SumAmount(_)
SumAmount(ts) ==
  IF ts = {} THEN 0
  ELSE LET t == CHOOSE x \in ts : TRUE IN t.amount + SumAmount(ts \ {t})

EdgeKey(t) == <<t.from_address, t.to_address, t.chain_id>>

MinOf(S) == CHOOSE x \in S : \A y \in S : x <= y
MaxOf(S) == CHOOSE x \in S : \A y \in S : x >= y

\* the pre-aggregated edges of a batch
AggregatedEdges(batch) ==
  { [source_address |-> k[1], dest_address |-> k[2], chain_id |-> k[3],
     transfer_count |-> Cardinality({ t \in batch : EdgeKey(t) = k }),
     total_amount |-> SumAmount({ t \in batch : EdgeKey(t) = k }),
     first_seen |-> MinOf({ t.block_timestamp : t \in { u \in batch : EdgeKey(u) = k } }),
     last_seen |-> MaxOf({ t.block_timestamp : t \in { u \in batch : EdgeKey(u) = k } })]
    : k \in { EdgeKey(t) : t \in batch } }

\* ON CONFLICT ... DO UPDATE SET transfer_count = old + EXCLUDED.transfer_count,
\* total_amount = old + EXCLUDED.total_amount,
\* last_seen = GREATEST(old, EXCLUDED.last_seen): stored row r, proposed row e
on_conflict_update(r, e) ==
  [r EXCEPT !.transfer_count = @ + e.transfer_count,
            !.total_amount = @ + e.total_amount,
            !.last_seen = Max(@, e.last_seen)]

SameEdge(r, e) == /\ r.source_address = e.source_address
                  /\ r.dest_address = e.dest_address
                  /\ r.chain_id = e.chain_id

\* the transfers of a batch as update_edges adds them to their edges
AggregatedInto(batch) == { <<EdgeKey(t), t.block_timestamp>> : t \in batch }

\* INSERT INTO wallet_graph_edges ... ON CONFLICT (source, dest, chain) DO UPDATE
update_edges(rows, batch) ==
  LET agg == AggregatedEdges(batch)
  IN  { r \in rows : ~\E e \in agg : SameEdge(r, e) }
      \cup { on_conflict_update(CHOOSE r \in rows : SameEdge(r, e), e)
             : e \in { x \in agg : \E r \in rows : SameEdge(r, x) } }
      \cup { e \in agg : ~\E r \in rows : SameEdge(r, e) }

(* ------------------- entity labels and anomaly rules ------------------ *)
\* An f64 is modelled exactly, as a whole number of hundredths.
f64(x) == x * 100

\* raw_to_human: amount / 10^decimals, for tokens of at most two decimals
raw_to_human(amount, decimals) == amount * 10 ^ (2 - decimals)

\* EntityLabelStore::lookup: the labels pushed for the address, in order
lookup(label_store, address) ==
  IF address \in DOMAIN label_store THEN Some(label_store[address]) ELSE None

\* EntityLabelStore::is_sanctioned
is_sanctioned(label_store, address) ==
  /\ address \in DOMAIN label_store
  /\ \E i \in 1..Len(label_store[address]) :
       \/ label_store[address][i].entity_type = "sanctioned"
       \/ label_store[address][i].label_source = "ofac_sdn"

AnomalyRecord(t, type, risk, flags, address) ==
  [chain_id |-> t.chain_id, anomaly_type |-> type, risk_score |-> risk, flags |-> flags,
   address |-> address, tx_hash |-> t.tx_hash, log_index |-> t.log_index]

\* thresholds.get(&transfer.token_symbol).or_else(|| thresholds.get("default"))
\*   .copied().unwrap_or(100_000.0)
threshold_of(thresholds, token_symbol) ==
  IF token_symbol \in DOMAIN thresholds THEN thresholds[token_symbol]
  ELSE IF "default" \in DOMAIN thresholds THEN thresholds["default"]
  ELSE f64(100000)

\* rules::check_large_transfer: the records (none or one) for transfer t
check_large_transfer(t, thresholds) ==
  LET threshold == threshold_of(thresholds, t.token_symbol)
      human_amount == raw_to_human(t.amount, t.token_decimals)
  IN  IF human_amount >= threshold
      THEN { AnomalyRecord(t, "large_transfer",
                           IF human_amount >= threshold * 10 THEN 80
                           ELSE IF human_amount >= threshold * 5 THEN 60 ELSE 40,
                           <<"transfer_amount_exceeds">>, None) }
      ELSE {}

\* rules::check_sanctioned_counterparty
check_sanctioned_counterparty(t, label_store) ==
  LET from_sanctioned == is_sanctioned(label_store, t.from_address)
      to_sanctioned == is_sanctioned(label_store, t.to_address)
  IN  IF from_sanctioned \/ to_sanctioned
      THEN { AnomalyRecord(t, "sanctioned_counterparty", 95,
                           IF from_sanctioned THEN <<"sanctioned_from_address">>
                           ELSE <<"sanctioned_to_address">>,
                           Some(IF from_sanctioned THEN t.from_address ELSE t.to_address)) }
      ELSE {}

\* rules::check_round_number: let round_thresholds = [...]
round_thresholds == <<f64(100000), f64(50000), f64(25000), f64(10000), f64(5000), f64(1000)>>

\* the body of `if human_amount >= threshold` for one base: the remainder's
\* fraction of the base is below tolerance or above 1 - tolerance
round_match(human_amount, threshold, tolerance) ==
  LET remainder == human_amount % threshold
  IN  \/ remainder * 100 < tolerance * threshold
      \/ remainder * 100 > (f64(1) - tolerance) * threshold

\* check_round_number with a loop that ends at the first base that is at
\* most the amount, whether or not it matches
check_round_number_first(t, tolerance) ==
  LET human_amount == raw_to_human(t.amount, t.token_decimals)
      below == { i \in 1..Len(round_thresholds) : human_amount >= round_thresholds[i] }
  IN  IF human_amount < f64(1000) \/ below = {} THEN {}
      ELSE LET threshold == round_thresholds[MinOf(below)]
           IN  IF round_match(human_amount, threshold, tolerance)
               THEN { AnomalyRecord(t, "round_number",
                                    IF threshold >= f64(100000) THEN 40
                                    ELSE IF threshold >= f64(10000) THEN 30 ELSE 20,
                                    <<"round_amount">>, None) }
               ELSE {}

\* rules::check_round_number: the for loop returns at the first base that is
\* at most the amount and matches
check_round_number(t, tolerance) ==
  LET human_amount == raw_to_human(t.amount, t.token_decimals)
      hits == { i \in 1..Len(round_thresholds) :
                  /\ human_amount >= round_thresholds[i]
                  /\ round_match(human_amount, round_thresholds[i], tolerance) }
  IN  IF human_amount < f64(1000) \/ hits = {} THEN {}
      ELSE LET threshold == round_thresholds[MinOf(hits)]
           IN  { AnomalyRecord(t, "round_number",
                               IF threshold >= f64(100000) THEN 40
                               ELSE IF threshold >= f64(10000) THEN 30 ELSE 20,
                               <<"round_amount">>, None) }

\* check_new_wallet_large_receive with the risk of 80 from five times the
\* threshold
check_new_wallet_large_receive_5x(t, new_wallets, threshold_usd) ==
  LET human_amount == raw_to_human(t.amount, t.token_decimals)
      is_new == \E i \in 1..Len(new_wallets) :
                  /\ new_wallets[i].address = t.to_address
                  /\ new_wallets[i].chain_id = t.chain_id
                  /\ new_wallets[i].direction = "to"
  IN  IF human_amount >= threshold_usd /\ is_new
      THEN { AnomalyRecord(t, "new_wallet_large_receive",
                           IF human_amount >= threshold_usd * 5 THEN 80 ELSE 60,
                           <<"new_wallet_received">>, Some(t.to_address)) }
      ELSE {}

\* rules::check_new_wallet_large_receive
check_new_wallet_large_receive(t, new_wallets, threshold_usd) ==
  LET human_amount == raw_to_human(t.amount, t.token_decimals)
      is_new == \E i \in 1..Len(new_wallets) :
                  /\ new_wallets[i].address = t.to_address
                  /\ new_wallets[i].chain_id = t.chain_id
                  /\ new_wallets[i].direction = "to"
  IN  IF human_amount >= threshold_usd /\ is_new
      THEN { AnomalyRecord(t, "new_wallet_large_receive",
                           IF human_amount >= threshold_usd * 10 THEN 80 ELSE 60,
                           <<"new_wallet_received">>, Some(t.to_address)) }
      ELSE {}

\* rules::check_velocity: SELECT COUNT(*) FROM transfers WHERE from_address,
\* chain_id match AND block_timestamp > $3 - window
check_velocity(xfers, t, window_secs, max_transfers) ==
  LET count == Cardinality({ r \in xfers : /\ r.from_address = t.from_address
                                            /\ r.chain_id = t.chain_id
                                            /\ r.block_timestamp > t.block_timestamp - window_secs })
  IN  IF count > max_transfers
      THEN { AnomalyRecord(t, "velocity", IF count > max_transfers * 5 THEN 70 ELSE 50,
                           <<"velocity_transfers_in_secs">>, Some(t.from_address)) }
      ELSE {}

\* rules::check_cross_chain_activity: SELECT COUNT(DISTINCT chain_id) FROM
\* transfers WHERE (from_address = $1 OR to_address = $1) AND block_timestamp > $2 - window
check_cross_chain_activity(xfers, t, window_secs) ==
  LET count == Cardinality({ r.chain_id : r \in
                   { x \in xfers : /\ x.from_address = t.from_address
                                      \/ x.to_address = t.from_address
                                   /\ x.block_timestamp > t.block_timestamp - window_secs } })
  IN  IF count >= 3
      THEN { AnomalyRecord(t, "cross_chain_activity", IF count >= 5 THEN 50 ELSE 30,
                           <<"active_on_chains_in_secs">>, Some(t.from_address)) }
      ELSE {}

\* AnomalyEngine::analyze_batch: the records of all rules for all transfers
\* of the batch; xfers is the transfers table the two query rules read
analyze_batch(config, xfers, batch, label_store, new_wallets) ==
  IF ~config.enabled THEN {}
  ELSE UNION {
    (IF DOMAIN config.large_transfer_thresholds # {}
     THEN check_large_transfer(t, config.large_transfer_thresholds) ELSE {})
    \cup check_sanctioned_counterparty(t, label_store)
    \cup check_round_number(t, config.round_number.tolerance)
    \cup check_new_wallet_large_receive(t, new_wallets, config.new_wallet.threshold_usd)
    \cup (IF Cardinality(batch) <= 100
          THEN check_velocity(xfers, t, config.velocity.window_secs,
                              config.velocity.max_transfers) ELSE {})
    \cup (IF Cardinality(batch) <= 50
          THEN check_cross_chain_activity(xfers, t, config.cross_chain.window_secs) ELSE {})
    : t \in batch }

\* AnomalyDetectionConfig of the indexed chains: the defaults of config.rs
\* and one default large-transfer threshold
AnomalyConfig ==
  [enabled |-> TRUE,
   large_transfer_thresholds |-> [k \in {"default"} |-> f64(LargeTransferThreshold)],
   velocity |-> [window_secs |-> 3600, max_transfers |-> 10],
   round_number |-> [tolerance |-> 1],
   new_wallet |-> [threshold_usd |-> f64(10000)],
   cross_chain |-> [window_secs |-> 1800]]

\* the label store of the indexed chains: no label is configured or seeded
NoLabels == <<>>

\* SELECT id FROM transfers WHERE chain_id, tx_hash, log_index match
transfer_id_of(xfers, a) ==
  LET found == { r \in xfers : KeyOf(r) = KeyOf(a) }
  IN  IF found = {} THEN None ELSE Some((CHOOSE r \in found : TRUE).id)

\* persist_anomalies: INSERT INTO anomalies ... ON CONFLICT (transfer_id,
\* anomaly_type) DO NOTHING, with the transfer id looked up by the natural key
persist_anomalies(rows, xfers, recs) ==
  rows \cup
    { row \in { [transfer_id |-> transfer_id_of(xfers, a), chain_id |-> a.chain_id,
                 anomaly_type |-> a.anomaly_type, risk_score |-> a.risk_score]
               : a \in recs } :
        ~\E r \in rows : /\ r.transfer_id = row.transfer_id
                          /\ r.transfer_id # None
                          /\ r.anomaly_type = row.anomaly_type }

(* --------------------------- indexer tasks ---------------------------- *)
NoHeader == [number |-> 0, hash |-> HashOf(0, 0), timestamp |-> 0, parent |-> HashOf(0, 0)]

LocInit == [mode |-> "backfill", cur |-> 0, tip |-> 0, to |-> 0, last |-> 0,
            upto |-> 0, num |-> 0, pos |-> 0, hdr |-> NoHeader, batch |-> {}]

NoRollback == [n |-> 0, f |-> 0, deleted |-> 0]

\* the blocks the task is processing: a backfill range or one live block
InFlight(c) ==
  IF loc[c].mode = "backfill" THEN loc[c].cur..loc[c].to
  ELSE {loc[c].hdr.number}

\* where the task continues once process_new_block has returned (Ok or Err:
\* the live loops only log the error)
NextBlock(c) ==
  IF loc[c].mode = "http"
  THEN <<"lh_header", [loc[c] EXCEPT !.num = @ + 1, !.batch = {}, !.hdr = NoHeader]>>
  ELSE <<"ws_next", [loc[c] EXCEPT !.batch = {}, !.hdr = NoHeader]>>

\* where an error propagated with `?` takes the task: backfill returns it to
\* run_chain_indexer, whose task ends; a live loop logs it and goes on
propagate(c) ==
  IF loc[c].mode = "backfill" THEN <<"failed", LocInit>> ELSE NextBlock(c)

Goto(c, p, l) == /\ pc' = [pc EXCEPT ![c] = p]
                 /\ loc' = [loc EXCEPT ![c] = l]

GotoPair(c, pl) == Goto(c, pl[1], pl[2])

\* an RPC call that fails even after retry_rpc's retries, or a call made
\* without retry that fails
RpcFails == faults < MaxFaults /\ faults' = faults + 1
\* a database call that fails
DbFails == faults < MaxFaults /\ faults' = faults + 1

Owe(c, blocks, why) == owed' = owed \cup { <<c, b, why>> : b \in blocks }
Settle(c, blocks) == owed' = { o \in owed : ~(o[1] = c /\ o[2] \in blocks) }

(* ----------------------- run_chain_indexer ----------------------------- *)
\* run_chain_indexer up to the call of backfill / live_index
Start(c) ==
  /\ pc[c] = "start"
  /\ UNCHANGED <<store, env, aux, known, holders, cfg, restarts, ghost>>
  /\ \/ /\ UNCHANGED faults
        /\ LET last == get_last_indexed_block(indexer_state, c)
               start_block == IF last # None THEN Some(last[1] + 1) ELSE cfg[c].start_block
           IN  IF start_block # None /\ ~shutdown
               THEN Goto(c, "bf_tip", [LocInit EXCEPT !.cur = start_block[1]])
               ELSE Goto(c, "live", [LocInit EXCEPT !.mode = "http"])
     \/ /\ DbFails
        /\ Goto(c, "failed", LocInit)

(* ------------------------------ backfill ------------------------------ *)
\* backfill: chain_tip = get_block_number, the "already past tip" return
BfTip(c) ==
  /\ pc[c] = "bf_tip"
  /\ UNCHANGED <<store, env, aux, known, holders, cfg, restarts, ghost>>
  /\ \/ /\ UNCHANGED faults
        /\ IF loc[c].cur > get_block_number(c)
           THEN Goto(c, "live", [LocInit EXCEPT !.mode = "http"])
           ELSE Goto(c, "bf_fetch", [loc[c] EXCEPT !.tip = get_block_number(c)])
     \/ /\ RpcFails
        /\ Goto(c, "failed", LocInit)

\* backfill: loop test (current <= chain_tip && !shutdown.is_cancelled()),
\* get_logs over the range, decode
BfFetch(c) ==
  /\ pc[c] = "bf_fetch"
  /\ UNCHANGED <<store, env, aux, known, holders, cfg, restarts,
                 lastRollback, owed, enrichedOnce, aggregated>>
  /\ \/ /\ loc[c].cur > loc[c].tip \/ shutdown
        /\ UNCHANGED <<faults, handed>>
        /\ Goto(c, "live", [LocInit EXCEPT !.mode = "http"])
     \/ /\ loc[c].cur <= loc[c].tip /\ ~shutdown
        /\ UNCHANGED faults
        /\ LET to_block == Min(loc[c].cur + cfg[c].batch_size - 1, loc[c].tip)
               logs == get_logs(c, loc[c].cur, to_block)
           IN  /\ Goto(c, IF logs # {} THEN "insert" ELSE "ckpt",
                       [loc[c] EXCEPT !.to = to_block, !.batch = logs])
               /\ handed' = [handed EXCEPT ![c] = Max(@, to_block)]
     \/ /\ loc[c].cur <= loc[c].tip /\ ~shutdown
        /\ RpcFails
        /\ UNCHANGED handed
        /\ Goto(c, "failed", LocInit)

(* ---------------- persist, enrich, DeFi (backfill and live) ----------- *)
\* repository::insert_transfers_batch(pool, &transfers).await?
Insert(c) ==
  /\ pc[c] = "insert"
  /\ UNCHANGED <<defi_events, block_hashes, indexer_state, wallet_graph_edges,
                 wallet_first_seen, anomalies, env, aux, known, holders, cfg, restarts,
                 lastRollback, enrichedOnce, handed, aggregated>>
  /\ \/ /\ transfers' = insert_transfers_batch(transfers, loc[c].batch, transfers_id_seq)
        /\ transfers_id_seq' = transfers_id_seq + Cardinality(transfers' \ transfers)
        /\ Goto(c, "lock", loc[c])
        /\ UNCHANGED <<faults, owed>>
     \/ /\ DbFails
        /\ UNCHANGED <<transfers, transfers_id_seq>>
        /\ GotoPair(c, propagate(c))
        /\ Owe(c, InFlight(c), "failure")

\* a faulty variant of the mutex: lock() returns although the guard is held
lock_ignoring_holder(h) == TRUE

\* tokio::sync::Mutex::lock resolves only while no guard exists
lock_available(h) == h = {}

\* let mut pl = pipeline.lock().await
Lock(c) ==
  /\ pc[c] = "lock"
  /\ lock_available(holders)
  /\ holders' = holders \cup {c}
  /\ Goto(c, "enrich", loc[c])
  /\ UNCHANGED <<store, env, aux, known, cfg, faults, restarts, ghost>>

\* position after enrich returned Ok: the guard is dropped at the end of the block
AfterEnrich(c) ==
  IF cfg[c].decode_defi THEN "defi"
  ELSE IF loc[c].mode = "backfill" THEN "ckpt" ELSE "hash"

\* a faulty variant: the error of enrich is logged and processing goes on
enrich_error_ignored(c) == <<AfterEnrich(c), loc[c]>>

\* pl.enrich(...).await? : the error leaves backfill / process_new_block
enrich_error(c) == propagate(c)

\* a faulty variant: the guard outlives the block that took it
drop_guard_never(h, c) == h

\* `pl` goes out of scope: at the end of the `if !transfers.is_empty()` block,
\* or when `?` returns the error of enrich
drop_guard(h, c) == h \ {c}

\* TransferPipeline::enrich on the task's batch, under the mutex guard
Enrich(c) ==
  /\ pc[c] = "enrich"
  /\ holders' = drop_guard(holders, c)
  /\ UNCHANGED <<transfers, transfers_id_seq, defi_events, block_hashes, indexer_state,
                 env, aux, cfg, restarts, lastRollback, handed>>
  /\ LET seq == SeqOf(loc[c].batch)
         st0 == [known |-> known, rows |-> wallet_first_seen, events |-> <<>>]
         st1 == process_transfers(st0, seq, 1)
     IN
     \/ \* all four steps succeed
        /\ known' = st1.known
        /\ wallet_first_seen' = st1.rows
        /\ wallet_graph_edges' = update_edges(wallet_graph_edges, loc[c].batch)
        /\ aggregated' = aggregated \cup AggregatedInto(loc[c].batch)
        /\ anomalies' = persist_anomalies(anomalies, transfers,
                         analyze_batch(AnomalyConfig, transfers, loc[c].batch,
                                       NoLabels, st1.events))
        /\ enrichedOnce' = enrichedOnce \cup {loc[c].batch}
        /\ Goto(c, AfterEnrich(c), loc[c])
        /\ UNCHANGED <<faults, owed>>
     \/ \* step 1 fails in upsert_first_seen
        /\ HasNewWallet(known, loc[c].batch)
        /\ DbFails
        /\ known' = process_transfers_failing(known, seq)
        /\ UNCHANGED <<wallet_first_seen, wallet_graph_edges, enrichedOnce,
                       aggregated, anomalies>>
        /\ GotoPair(c, enrich_error(c))
        /\ Owe(c, InFlight(c), "failure")
     \/ \* step 3 fails: the edge upsert statement
        /\ DbFails
        /\ known' = st1.known
        /\ wallet_first_seen' = st1.rows
        /\ UNCHANGED <<wallet_graph_edges, enrichedOnce, aggregated, anomalies>>
        /\ GotoPair(c, enrich_error(c))
        /\ Owe(c, InFlight(c), "failure")
     \/ \* step 4 fails: a rule's query or persist_anomalies
        /\ DbFails
        /\ known' = st1.known
        /\ wallet_first_seen' = st1.rows
        /\ wallet_graph_edges' = update_edges(wallet_graph_edges, loc[c].batch)
        /\ aggregated' = aggregated \cup AggregatedInto(loc[c].batch)
        /\ UNCHANGED <<enrichedOnce, anomalies>>
        /\ GotoPair(c, enrich_error(c))
        /\ Owe(c, InFlight(c), "failure")

\* fetch_receipts_for_txs, decode_defi_logs, insert_defi_events_batch
Defi(c) ==
  /\ pc[c] = "defi"
  /\ UNCHANGED <<transfers, transfers_id_seq, block_hashes, indexer_state,
                 wallet_graph_edges, wallet_first_seen, anomalies, env, aux, known,
                 holders, cfg, restarts, lastRollback, enrichedOnce, handed, aggregated>>
  /\ LET after == IF loc[c].mode = "backfill" THEN "ckpt" ELSE "hash"
     IN
     \/ /\ defi_events' = insert_defi_events_batch(defi_events, DefiOf(loc[c].batch))
        /\ Goto(c, after, loc[c])
        /\ UNCHANGED <<faults, owed>>
     \/ \* the receipt fetch fails: logged, processing continues
        /\ RpcFails
        /\ UNCHANGED <<defi_events, owed>>
        /\ Goto(c, after, loc[c])
     \/ /\ DefiOf(loc[c].batch) # {}
        /\ DbFails
        /\ UNCHANGED defi_events
        /\ GotoPair(c, propagate(c))
        /\ Owe(c, InFlight(c), "failure")

\* repository::upsert_indexer_state: to_block in backfill, block_number in live
Ckpt(c) ==
  /\ pc[c] = "ckpt"
  /\ UNCHANGED <<transfers, transfers_id_seq, defi_events, block_hashes,
                 wallet_graph_edges, wallet_first_seen, anomalies, env, aux, known,
                 holders, cfg, restarts, lastRollback, enrichedOnce, handed, aggregated>>
  /\ \/ /\ loc[c].mode = "backfill"
        /\ indexer_state' = upsert_indexer_state(indexer_state, c, loc[c].to)
        /\ Goto(c, "bf_fetch", [loc[c] EXCEPT !.cur = loc[c].to + 1, !.batch = {}])
        /\ Settle(c, InFlight(c))
        /\ UNCHANGED faults
     \/ /\ loc[c].mode # "backfill"
        /\ indexer_state' = upsert_indexer_state(indexer_state, c, loc[c].hdr.number)
        /\ GotoPair(c, NextBlock(c))
        /\ Settle(c, InFlight(c))
        /\ UNCHANGED faults
     \/ /\ DbFails
        /\ UNCHANGED indexer_state
        /\ GotoPair(c, propagate(c))
        /\ Owe(c, InFlight(c), "failure")

(* ------------------------------- live --------------------------------- *)
\* run_chain_indexer's test of the token before live_index, then live_index:
\* the WebSocket subscription when rpc_ws is set, HTTP polling when it is not
\* or when connecting / subscribing fails
Live(c) ==
  /\ pc[c] = "live"
  /\ UNCHANGED <<store, env, aux, known, holders, cfg, restarts, ghost>>
  /\ \/ /\ shutdown
        /\ UNCHANGED faults
        /\ Goto(c, "done", LocInit)
     \/ /\ ~shutdown /\ cfg[c].rpc_ws
        /\ UNCHANGED faults
        /\ Goto(c, "ws_next", [LocInit EXCEPT !.mode = "ws", !.pos = Len(announced[c])])
     \/ /\ ~shutdown /\ cfg[c].rpc_ws
        /\ RpcFails
        /\ Goto(c, "lh_init", [LocInit EXCEPT !.mode = "http"])
     \/ /\ ~shutdown /\ ~cfg[c].rpc_ws
        /\ UNCHANGED faults
        /\ Goto(c, "lh_init", [LocInit EXCEPT !.mode = "http"])

\* live_index_ws: stream.next() yields the next announced header, or the
\* stream ends and the function returns Ok(())
WsNext(c) ==
  /\ pc[c] = "ws_next"
  /\ UNCHANGED <<store, env, aux, known, holders, cfg, restarts, owed, enrichedOnce,
                 aggregated>>
  /\ lastRollback' = [lastRollback EXCEPT ![c] = NoRollback]
  /\ \/ /\ loc[c].pos < Len(announced[c])
        /\ UNCHANGED faults
        /\ Goto(c, "pb_reorg", [loc[c] EXCEPT !.pos = @ + 1,
                                               !.hdr = announced[c][loc[c].pos + 1]])
        /\ handed' = [handed EXCEPT ![c] = Max(@, announced[c][loc[c].pos + 1].number)]
     \/ /\ RpcFails
        /\ UNCHANGED handed
        /\ Goto(c, "done", LocInit)

\* live_index_http: last_block = get_block_number before the loop
LhInit(c) ==
  /\ pc[c] = "lh_init"
  /\ UNCHANGED <<store, env, aux, known, holders, cfg, restarts, ghost>>
  /\ \/ /\ UNCHANGED faults
        /\ Goto(c, "lh_poll", [loc[c] EXCEPT !.last = get_block_number(c)])
     \/ /\ RpcFails
        /\ Goto(c, "failed", LocInit)

\* live_index_http: one tick; a tick that finds no new block changes nothing
LhPoll(c) ==
  /\ pc[c] = "lh_poll"
  /\ UNCHANGED <<store, env, aux, known, holders, cfg, restarts, ghost>>
  /\ \/ /\ get_block_number(c) > loc[c].last
        /\ UNCHANGED faults
        /\ Goto(c, "lh_header", [loc[c] EXCEPT !.num = loc[c].last + 1,
                                                !.upto = get_block_number(c)])
     \/ \* get_block_number fails: logged, continue
        /\ RpcFails
        /\ UNCHANGED <<pc, loc>>

\* get_block_by_number fails after the retries: `?` ends live_index_http
get_block_by_number_error(c) ==
  /\ loc[c].num <= loc[c].upto /\ ~shutdown
  /\ RpcFails
  /\ UNCHANGED handed
  /\ Goto(c, "failed", LocInit)

\* live_index_http: the for loop over (last_block + 1)..=current
LhHeader(c) ==
  /\ pc[c] = "lh_header"
  /\ UNCHANGED <<store, env, aux, known, holders, cfg, restarts, owed, enrichedOnce,
                 aggregated>>
  /\ lastRollback' = [lastRollback EXCEPT ![c] = NoRollback]
  /\ \/ \* the range is exhausted, or the token is cancelled (break):
        \* last_block = current
        /\ loc[c].num > loc[c].upto \/ shutdown
        /\ UNCHANGED <<faults, handed>>
        /\ Goto(c, "lh_poll", [loc[c] EXCEPT !.last = loc[c].upto, !.num = 0, !.upto = 0])
     \/ /\ loc[c].num <= loc[c].upto /\ ~shutdown
        /\ UNCHANGED faults
        /\ Goto(c, "pb_reorg", [loc[c] EXCEPT !.hdr = HeaderOf(c, loc[c].num)])
        /\ handed' = [handed EXCEPT ![c] = Max(@, loc[c].num)]
     \/ get_block_by_number_error(c)

\* process_new_block: reorg detection
PbReorg(c) ==
  /\ pc[c] = "pb_reorg"
  /\ UNCHANGED <<store, env, aux, known, holders, cfg, restarts, lastRollback,
                 enrichedOnce, handed, aggregated>>
  /\ LET stored == get_block_hash(block_hashes, c, loc[c].hdr.number - 1)
     IN
     \/ /\ stored # {} /\ stored # {loc[c].hdr.parent}
        /\ Goto(c, "pb_rollback", loc[c])
        /\ UNCHANGED <<faults, owed>>
     \/ /\ ~(stored # {} /\ stored # {loc[c].hdr.parent})
        /\ Goto(c, "pb_logs", loc[c])
        /\ UNCHANGED <<faults, owed>>
     \/ /\ DbFails
        /\ GotoPair(c, propagate(c))
        /\ Owe(c, InFlight(c), "failure")

\* process_new_block: find_fork_point, the three deletes, return Ok(())
PbRollback(c) ==
  /\ pc[c] = "pb_rollback"
  /\ UNCHANGED <<transfers_id_seq, indexer_state, wallet_graph_edges, wallet_first_seen,
                 anomalies, env, aux, known, holders, cfg, restarts, enrichedOnce,
                 handed, aggregated>>
  /\ LET n == loc[c].hdr.number
         fork_block == find_fork_point(block_hashes, c, n, ReorgDepth)
     IN
     \/ /\ transfers' = delete_transfers_from_block(transfers, c, fork_block)
        /\ defi_events' = delete_defi_events_from_block(defi_events, c, fork_block)
        /\ block_hashes' = delete_block_hashes_from(block_hashes, c, fork_block)
        /\ lastRollback' = [lastRollback EXCEPT ![c] =
              [n |-> n, f |-> fork_block,
               deleted |-> Cardinality(transfers) - Cardinality(transfers')]]
        /\ Owe(c, fork_block..n, "rollback")
        /\ GotoPair(c, NextBlock(c))
        /\ UNCHANGED faults
     \/ \* find_fork_point or delete_transfers_from_block fails
        /\ DbFails
        /\ UNCHANGED <<transfers, defi_events, block_hashes, lastRollback>>
        /\ Owe(c, {n}, "failure")
        /\ GotoPair(c, propagate(c))
     \/ \* delete_defi_events_from_block fails
        /\ DbFails
        /\ transfers' = delete_transfers_from_block(transfers, c, fork_block)
        /\ UNCHANGED <<defi_events, block_hashes, lastRollback>>
        /\ Owe(c, {n}, "failure")
        /\ GotoPair(c, propagate(c))
     \/ \* delete_block_hashes_from fails
        /\ DbFails
        /\ transfers' = delete_transfers_from_block(transfers, c, fork_block)
        /\ defi_events' = delete_defi_events_from_block(defi_events, c, fork_block)
        /\ UNCHANGED <<block_hashes, lastRollback>>
        /\ Owe(c, {n}, "failure")
        /\ GotoPair(c, propagate(c))

\* process_new_block: get_logs for this block number (no retry), decode;
\* block_number, block_hash and block_timestamp of the rows come from the header
PbLogs(c) ==
  /\ pc[c] = "pb_logs"
  /\ UNCHANGED <<store, env, aux, known, holders, cfg, restarts, ghost>>
  /\ \/ /\ UNCHANGED faults
        /\ LET logs == { [t EXCEPT !.block_hash = loc[c].hdr.hash,
                                   !.block_timestamp = loc[c].hdr.timestamp]
                         : t \in get_logs(c, loc[c].hdr.number, loc[c].hdr.number) }
           IN  Goto(c, IF logs # {} THEN "insert" ELSE "hash",
                    [loc[c] EXCEPT !.batch = logs])
     \/ /\ RpcFails
        /\ GotoPair(c, propagate(c))

\* process_new_block: upsert_block_hash
Hash(c) ==
  /\ pc[c] = "hash"
  /\ UNCHANGED <<transfers, transfers_id_seq, defi_events, indexer_state,
                 wallet_graph_edges, wallet_first_seen, anomalies, env, aux, known,
                 holders, cfg, restarts, lastRollback, enrichedOnce, handed, aggregated>>
  /\ \/ /\ block_hashes' = upsert_block_hash(block_hashes, c, loc[c].hdr.number,
                                             loc[c].hdr.hash)
        /\ Goto(c, IF loc[c].hdr.number > ReorgDepth THEN "prune" ELSE "ckpt", loc[c])
        /\ UNCHANGED <<faults, owed>>
     \/ /\ DbFails
        /\ UNCHANGED block_hashes
        /\ GotoPair(c, propagate(c))
        /\ Owe(c, InFlight(c), "failure")

\* process_new_block: prune_block_hashes below block_number - max_reorg_depth
Prune(c) ==
  /\ pc[c] = "prune"
  /\ UNCHANGED <<transfers, transfers_id_seq, defi_events, indexer_state,
                 wallet_graph_edges, wallet_first_seen, anomalies, env, aux, known,
                 holders, cfg, restarts, lastRollback, enrichedOnce, handed, aggregated>>
  /\ \/ /\ block_hashes' = prune_block_hashes(block_hashes, c,
                                              loc[c].hdr.number - ReorgDepth)
        /\ Goto(c, "ckpt", loc[c])
        /\ UNCHANGED <<faults, owed>>
     \/ /\ DbFails
        /\ UNCHANGED block_hashes
        /\ GotoPair(c, propagate(c))
        /\ Owe(c, InFlight(c), "failure")

(* ------------------------------ shutdown ------------------------------ *)
\* positions inside backfill's loop body or process_new_block
MidBatch == {"insert", "lock", "enrich", "defi", "ckpt", "hash", "prune",
             "pb_reorg", "pb_rollback", "pb_logs"}

NotInFlight == [blocks |-> {}, checkpoint |-> 0, faults |-> 0]

\* main: ctrl_c() resolves, shutdown.cancel(), main goes on to join the handles
Cancel ==
  /\ supervisor = "waiting"
  /\ shutdown' = TRUE
  /\ supervisor' = "joining"
  /\ atCancel' = [c \in Chains |->
        [blocks |-> IF pc[c] \in MidBatch THEN InFlight(c) ELSE {},
         checkpoint |-> IF indexer_state[c] = None THEN 0 ELSE indexer_state[c][1],
         faults |-> faults]]
  /\ UNCHANGED <<store, env, ghost, retry, unit, known, holders, cfg, pc, loc, faults, restarts>>

\* a faulty variant: only the WebSocket loop selects on the token
cancelled_branch_ws_only(p) == p \in {"ws_next"}

\* the suspension points whose select! has a shutdown.cancelled() branch
cancelled_branch(p) == p \in {"ws_next", "lh_poll"}

\* live_index_ws / live_index_http: the shutdown.cancelled() branch of the
\* select! is taken, the loop breaks and run_chain_indexer returns Ok(())
Shutdown(c) ==
  /\ shutdown
  /\ cancelled_branch(pc[c])
  /\ Goto(c, "done", LocInit)
  /\ UNCHANGED <<store, env, aux, ghost, known, holders, cfg, faults, restarts>>

\* main: every handle.await has returned; main returns and the process exits
Join ==
  /\ supervisor = "joining"
  /\ \A c \in Chains : pc[c] \in {"done", "failed"}
  /\ supervisor' = "exited"
  /\ UNCHANGED <<store, env, ghost, shutdown, atCancel, retry, unit, known, holders, cfg,
                 pc, loc, faults, restarts>>

(* ------------------------------ retry_rpc ----------------------------- *)
NoRetry == [op |-> <<>>, pc |-> "idle", attempt |-> 0, delay |-> 0, calls |-> 0,
            slept |-> <<>>, result |-> "none"]

\* retry_rpc called with an operation whose k-th invocation succeeds iff op[k]
RetryEntered(op) == [op |-> op, pc |-> "loop", attempt |-> 0, delay |-> initial_delay_ms,
                     calls |-> 0, slept |-> <<>>, result |-> "none"]

\* a faulty variant: the range of the for loop is 0..=max_retries
in_retry_loop_inclusive(attempt) == attempt <= max_retries

\* for attempt in 0..max_retries
in_retry_loop(attempt) == attempt < max_retries

\* std::cmp::min(delay * 2, Duration::from_secs(30))
next_delay(delay) == Min(delay * 2, max_delay_ms)

\* the outcome of the next invocation of the operation (an operation that is
\* invoked more often than outcomes were drawn keeps failing)
Invoke(r) == r.calls + 1 <= Len(r.op) /\ r.op[r.calls + 1]

\* one iteration of the for loop: f().await, return Ok on success
RetryAttempt ==
  /\ retry.pc = "loop" /\ in_retry_loop(retry.attempt)
  /\ retry' = IF Invoke(retry)
               THEN [retry EXCEPT !.calls = @ + 1, !.pc = "returned", !.result = "ok"]
               ELSE [retry EXCEPT !.calls = @ + 1, !.pc = "sleep"]
  /\ UNCHANGED <<store, env, ghost, shutdown, supervisor, atCancel, unit, known, holders,
                 cfg, pc, loc, faults, restarts>>

\* the Err arm: tokio::time::sleep(delay), then the delay doubles up to the cap
RetrySleep ==
  /\ retry.pc = "sleep"
  /\ retry' = [retry EXCEPT !.slept = Append(@, retry.delay),
                             !.delay = next_delay(@),
                             !.attempt = @ + 1,
                             !.pc = "loop"]
  /\ UNCHANGED <<store, env, ghost, shutdown, supervisor, atCancel, unit, known, holders,
                 cfg, pc, loc, faults, restarts>>

\* after the loop: the final attempt, whose error is returned
RetryFinal ==
  /\ retry.pc = "loop" /\ ~in_retry_loop(retry.attempt)
  /\ retry' = [retry EXCEPT !.calls = @ + 1, !.pc = "returned",
                             !.result = IF Invoke(retry) THEN "ok" ELSE "err"]
  /\ UNCHANGED <<store, env, ghost, shutdown, supervisor, atCancel, unit, known, holders,
                 cfg, pc, loc, faults, restarts>>

(* --------------------------- RPC call sites --------------------------- *)
\* the RPC calls of the indexer: eth_blockNumber in backfill (chain.rs:82), in
\* live_index_http before the loop (336) and at each tick (354); eth_getLogs
\* in backfill (119) and in process_new_block (452); eth_getBlockByNumber in
\* backfill (126) and in live_index_http (371); eth_getTransactionReceipt in
\* fetch_receipts_for_txs (receipt_fetcher.rs:17)
RpcSites == {"backfill_block_number", "backfill_get_logs", "backfill_get_block",
             "http_block_number_init", "http_block_number_tick", "http_get_block",
             "live_get_logs", "get_transaction_receipt"}

\* the call is written retry_rpc(|| ...): all but process_new_block's
\* provider.get_logs(&filter).await?
wrapped_in_retry_rpc(site) == site # "live_get_logs"

\* one RPC call at a call site: through retry_rpc, or invoked once with its
\* error returned by `?`
RpcCall ==
  /\ call.pc = "rpc"
  /\ call' = [call EXCEPT !.pc = "called"]
  /\ retry' = IF wrapped_in_retry_rpc(call.site) THEN RetryEntered(call.op)
              ELSE [RetryEntered(call.op) EXCEPT
                      !.calls = 1, !.pc = "returned",
                      !.result = IF Invoke(RetryEntered(call.op)) THEN "ok" ELSE "err"]
  /\ UNCHANGED <<store, env, ghost, shutdown, supervisor, atCancel, startup, known, holders,
                 cfg, pc, loc, faults, restarts>>

(* ---------------------------- Config::load ---------------------------- *)
\* A string is described by its first two characters and, for the rest, by
\* the number of one-byte characters and the number of two-byte characters
\* (UTF-8) it holds.
Wide == "e'"
Utf8Len(ch) == IF ch = Wide THEN 2 ELSE 1

\* str::len: the length in bytes
len(s) == Utf8Len(s.head[1]) + Utf8Len(s.head[2]) + s.ascii + 2 * s.wide

\* s.chars().count(): the length in characters
chars_count(s) == 2 + s.ascii + s.wide

\* str::starts_with("0x")
starts_with_0x(s) == s.head = <<"0", "x">>

\* Config::validate: !token.address.starts_with("0x") || token.address.len() != 42
bad_address(address) == ~starts_with_0x(address) \/ len(address) # address_len

\* Config::validate, for a configuration given as the sequence of its chains,
\* each chain as the sequence of its tokens' addresses: the first error the
\* loops come to, or "Ok"
validate(chains) ==
  IF chains = <<>> THEN "At least one chain must be configured"
  ELSE LET Defect(i) == chains[i] = <<>> \/ \E j \in 1..Len(chains[i]) : bad_address(chains[i][j])
       IN  IF \E i \in 1..Len(chains) : Defect(i)
           THEN LET first == CHOOSE i \in 1..Len(chains) :
                               Defect(i) /\ \A k \in 1..(i - 1) : ~Defect(k)
                IN  IF chains[first] = <<>> THEN "must have at least one token configured"
                    ELSE "Invalid token address"
           ELSE "Ok"

NotLoading == [chains |-> <<>>, pc |-> "idle"]

\* Config::load after toml::from_str: config.validate()?, and main's
\* `Config::load(&config_path)?`: an error ends the process before anything
\* is started
Load ==
  /\ startup.pc = "parsed"
  /\ startup' = [startup EXCEPT !.pc = IF validate(startup.chains) = "Ok" THEN "loaded"
                                       ELSE "fatal"]
  /\ UNCHANGED <<store, env, ghost, shutdown, supervisor, atCancel, retry, call, known, holders,
                 cfg, pc, loc, faults, restarts>>

(* ------------------------- decode_transfer_log ------------------------ *)
NoCall == [pc |-> "idle"]

\* Transfer::SIGNATURE_HASH: keccak256("Transfer(address,address,uint256)")
SIGNATURE_HASH ==
  <<221, 242, 82, 173, 27, 226, 200, 155, 105, 194, 176, 104, 252, 55, 141, 170,
    149, 43, 167, 241, 99, 196, 161, 22, 40, 245, 90, 77, 245, 35, 179, 239>>

\* keccak256("Approval(address,address,uint256)"), another event of ERC-20
ApprovalSignature ==
  <<140, 91, 225, 229, 235, 236, 125, 91, 209, 79, 113, 66, 125, 30, 132, 243,
    221, 3, 20, 192, 247, 178, 41, 30, 91, 32, 10, 200, 199, 195, 185, 37>>

\* a faulty variant: the first 20 bytes of the word
from_word_high(word) == SubSeq(word, 1, 20)

\* Address::from_word: the last 20 bytes of a 32-byte word
from_word(word) == SubSeq(word, 13, 32)

\* U256::from_be_slice: the big-endian value of a byte string
RECURSIVE from_be_slice(_)
from_be_slice(bytes) ==
  IF bytes = <<>> THEN 0
  ELSE from_be_slice(SubSeq(bytes, 1, Len(bytes) - 1)) * 256 + bytes[Len(bytes)]

\* decode_transfer_log(log, watched_tokens): Some(DecodedTransfer) or None
decode_transfer_log(log, watched_tokens) ==
  IF log.address \notin DOMAIN watched_tokens THEN None
  ELSE IF log.topics = <<>> \/ log.topics[1] # SIGNATURE_HASH THEN None
  ELSE IF Len(log.topics) # 3 THEN None
  ELSE IF Len(log.data) < 32 THEN None
  ELSE Some([from |-> from_word(log.topics[2]),
             to |-> from_word(log.topics[3]),
             amount |-> from_be_slice(SubSeq(log.data, 1, 32)),
             token_address |-> log.address,
             token_symbol |-> watched_tokens[log.address].symbol,
             token_decimals |-> watched_tokens[log.address].decimals])

\* the decoder is applied to one log
Decode ==
  /\ call.pc = "decode"
  /\ call' = [call EXCEPT !.pc = "returned",
                          !.ret = decode_transfer_log(call.log, call.watched_tokens)]
  /\ UNCHANGED <<store, env, ghost, shutdown, supervisor, atCancel, retry, startup, known,
                 holders, cfg, pc, loc, faults, restarts>>

(* ---------------- TransferPipeline::enrich on one transfer ------------ *)
\* steps 1 and 4 of TransferPipeline::enrich on a batch of one transfer that
\* has just been inserted: WalletTracker::process_transfers from the tracker's
\* known set, then AnomalyEngine::analyze_batch; the result is the Vec of
\* anomaly records (as a set: the rules give records of different types)
Analyze ==
  /\ call.pc = "enrich"
  /\ LET t == call.transfer
         st1 == process_transfers([known |-> call.known, rows |-> {}, events |-> <<>>],
                                  <<t>>, 1)
     IN  call' = [call EXCEPT !.pc = "returned",
                              !.new_wallets = st1.events,
                              !.ret = analyze_batch(call.config, {WithId(t, 1)}, {t},
                                                    call.label_store, st1.events)]
  /\ UNCHANGED <<store, env, ghost, shutdown, supervisor, atCancel, retry, startup, known,
                 holders, cfg, pc, loc, faults, restarts>>

\* TransferPipeline::enrich, step 4: analyze_batch on a batch whose rows are
\* in the transfers table, with no label and no new wallet
AnalyzeBatch ==
  /\ call.pc = "analyze"
  /\ call' = [call EXCEPT !.pc = "analyzed",
                          !.ret = analyze_batch(call.config, call.xfers, call.batch,
                                                NoLabels, <<>>)]
  /\ UNCHANGED <<store, env, ghost, shutdown, supervisor, atCancel, retry, startup, known,
                 holders, cfg, pc, loc, faults, restarts>>

\* TransferPipeline::enrich, step 1: wallet_tracker.process_transfers on the
\* next batch of the stream of transfers, every insert succeeding
TrackBatch ==
  /\ call.pc = "tracking"
  /\ call.done < Len(call.stream)
  /\ \E n \in 1..(Len(call.stream) - call.done) :
       LET batch == SubSeq(call.stream, call.done + 1, call.done + n)
           st == process_transfers([known |-> call.known, rows |-> call.rows,
                                    events |-> <<>>], batch, 1)
       IN  call' = [call EXCEPT !.known = st.known, !.rows = st.rows,
                                !.emitted = @ \o st.events,
                                !.done = @ + n]
  /\ UNCHANGED <<store, env, ghost, shutdown, supervisor, atCancel, retry, startup, known,
                 holders, cfg, pc, loc, faults, restarts>>

\* process_new_block's rollback on its own: find_fork_point, then the three
\* deletes, the first two or all three of them succeeding
Rollback ==
  /\ call.pc = "rollback"
  /\ LET fork_block == find_fork_point(call.block_hashes, call.chain_id, call.block_number,
                                       call.max_reorg_depth)
     IN  call' = [call EXCEPT
           !.pc = "rolled_back",
           !.fork_block = fork_block,
           !.transfers = delete_transfers_from_block(@, call.chain_id, fork_block),
           !.defi_events = IF call.deletes >= 2
                           THEN delete_defi_events_from_block(@, call.chain_id, fork_block)
                           ELSE @,
           !.block_hashes = IF call.deletes >= 3
                            THEN delete_block_hashes_from(@, call.chain_id, fork_block)
                            ELSE @]
  /\ UNCHANGED <<store, env, ghost, shutdown, supervisor, atCancel, retry, startup, known,
                 holders, cfg, pc, loc, faults, restarts>>

(* -------------------- EntityLabelStore and the matcher ---------------- *)
\* the conflict target of the insert into entity_labels:
\* (address, chain_id, label_source, entity_name)
SameLabel(r, address, chain_id, label_source, entity_name) ==
  /\ r.address = address
  /\ r.chain_id = chain_id
  /\ r.label_source = label_source
  /\ r.entity_name = entity_name

\* EntityLabelStore::insert_memory: by_address.entry(address).or_default().push(label)
insert_memory(by_address, label) ==
  [a \in DOMAIN by_address \cup {label.address} |->
     IF a = label.address
     THEN Append(IF a \in DOMAIN by_address THEN by_address[a] ELSE <<>>, label)
     ELSE by_address[a]]

\* EntityLabelStore::load_from_db: every row is pushed, in the order of the query
RECURSIVE load_from_db(_)
load_from_db(rows) ==
  IF rows = <<>> THEN <<>>
  ELSE insert_memory(load_from_db(SubSeq(rows, 1, Len(rows) - 1)), rows[Len(rows)])

\* EntityLabelStore::seed_label: the upsert returns the id of the row it
\* inserted or updated (the id sequence advances either way), and the label
\* goes to insert_memory
seed_label(st, address, chain_id, entity_name, entity_type, label_source) ==
  LET hit == { r \in st.entity_labels :
                 SameLabel(r, address, chain_id, label_source, entity_name) }
      id == IF hit = {} THEN st.next_id ELSE (CHOOSE r \in hit : TRUE).id
      label == [id |-> id, address |-> address, chain_id |-> chain_id,
                entity_name |-> entity_name, entity_type |-> entity_type,
                label_source |-> label_source]
  IN  [entity_labels |-> (st.entity_labels \ hit) \cup {label},
       next_id |-> st.next_id + 1,
       by_address |-> insert_memory(st.by_address, label)]

\* matcher::attribute_entities, one side of one transfer: the labels of
\* the address that are global or of the transfer's chain
in_scope(label_store, t, address) ==
  LET labels == lookup(label_store, address)
  IN  IF labels = None THEN <<>>
      ELSE SelectSeq(labels[1],
             LAMBDA label : ~(label.chain_id # None /\ label.chain_id # Some(t.chain_id)))

\* matcher::insert_flag: the rows added for the labels of one side; nothing
\* is added when the transfer has no row, or when the flag exists
insert_flag(xfers, t, labels, side) ==
  { [transfer_id |-> r.id, entity_label_id |-> labels[i].id, side |-> side] :
      r \in { x \in xfers : /\ x.chain_id = t.chain_id
                            /\ x.tx_hash = t.tx_hash
                            /\ x.log_index = t.log_index },
      i \in 1..Len(labels) }

\* matcher::attribute_entities: the flags table and the count returned
RECURSIVE attribute_entities(_, _, _, _)
attribute_entities(xfers, flags, batch, label_store) ==
  IF batch = <<>> THEN [attributed |-> 0, flags |-> flags]
  ELSE LET t == Head(batch)
           from_labels == in_scope(label_store, t, t.from_address)
           to_labels == in_scope(label_store, t, t.to_address)
           rest == attribute_entities(xfers,
                     flags \cup insert_flag(xfers, t, from_labels, "from")
                           \cup insert_flag(xfers, t, to_labels, "to"),
                     Tail(batch), label_store)
       IN  [attributed |-> Len(from_labels) + Len(to_labels) + rest.attributed,
            flags |-> rest.flags]

\* the orders in which a query without ORDER BY may return the rows
Enumerations(S) ==
  { s \in [1..Cardinality(S) -> S] : \A i, j \in DOMAIN s : i # j => s[i] # s[j] }

\* TransferPipeline::init, EntityLabelStore::load_from_db(pool)
LoadLabels ==
  /\ call.pc = "init"
  /\ \E rows \in Enumerations(call.entity_labels) :
       call' = [call EXCEPT !.pc = "seeding", !.by_address = load_from_db(rows)]
  /\ UNCHANGED <<store, env, ghost, shutdown, supervisor, atCancel, retry, startup, known,
                 holders, cfg, pc, loc, faults, restarts>>

\* TransferPipeline::init, seed_ofac_entries and seed_manual_labels: one call
\* of seed_label
SeedLabel ==
  /\ call.pc = "seeding"
  /\ call.seeded < MaxSeeds
  /\ \E address \in {"w1", "w2"}, chain_id \in {None, Some(1)},
        entity_type \in {"exchange", "sanctioned"} :
       LET st == seed_label(call, address, chain_id, "entity", entity_type, "manual")
       IN  call' = [call EXCEPT !.entity_labels = st.entity_labels,
                                !.next_id = st.next_id,
                                !.by_address = st.by_address,
                                !.seeded = @ + 1]
  /\ UNCHANGED <<store, env, ghost, shutdown, supervisor, atCancel, retry, startup, known,
                 holders, cfg, pc, loc, faults, restarts>>

\* TransferPipeline::enrich, step 2: attribute_entities on a batch of one
\* persisted transfer
Attribute ==
  /\ call.pc = "seeding"
  /\ LET t == call.transfer
         r == attribute_entities({WithId(t, 1)}, {}, <<t>>, call.by_address)
     IN  call' = [call EXCEPT !.pc = "attributed",
                              !.attributed = r.attributed,
                              !.flags = r.flags]
  /\ UNCHANGED <<store, env, ghost, shutdown, supervisor, atCancel, retry, startup, known,
                 holders, cfg, pc, loc, faults, restarts>>

(* --------------------------- environment ------------------------------ *)
\* newHeads notifications exist only for a chain configured with rpc_ws
Announce(c, sent, headers) == IF cfg[c].rpc_ws THEN sent \o headers ELSE sent

\* the node appends a block and announces its header
Mine(c) ==
  /\ cfg[c].watched
  /\ Len(node[c]) < MaxBlock
  /\ LET ch == Append(node[c], reorgs)
     IN  /\ node' = [node EXCEPT ![c] = ch]
         /\ announced' = [announced EXCEPT ![c] = Announce(c, @, <<Header(ch, Len(ch))>>)]
  /\ UNCHANGED <<store, aux, known, holders, cfg, pc, loc, faults, restarts, reorgs, ghost>>

\* the headers of blocks from..to of chain ch, in order
HeadersOf(ch, from, to) == [i \in 1..(to - from + 1) |-> Header(ch, from + i - 1)]

\* the node replaces blocks k..tip by a new branch of the same length; it
\* announces every new block, or only the new head
Reorg(c) ==
  /\ cfg[c].watched
  /\ reorgs < MaxReorgs
  /\ reorgs' = reorgs + 1
  /\ \E k \in 1..Len(node[c]) :
       LET ch == [b \in 1..Len(node[c]) |-> IF b >= k THEN reorgs + 1 ELSE node[c][b]]
       IN  /\ node' = [node EXCEPT ![c] = ch]
           /\ \/ announced' = [announced EXCEPT ![c] =
                                 Announce(c, @, HeadersOf(ch, k, Len(ch)))]
              \/ announced' = [announced EXCEPT ![c] =
                                 Announce(c, @, HeadersOf(ch, Len(ch), Len(ch)))]
  /\ UNCHANGED <<store, aux, known, holders, cfg, pc, loc, faults, restarts, ghost>>

\* a spawned task: run_chain_indexer returns before its first await when the
\* chain's watched-token map is empty
Spawned(c) == IF cfg[c].watched THEN "start" ELSE "done"

\* the process dies and is started again: main runs TransferPipeline::init
\* (WalletTracker::load_from_db) and spawns every chain's task afresh
Restart ==
  /\ restarts < MaxRestarts
  /\ restarts' = restarts + 1
  /\ known' = { <<r.address, r.chain_id>> : r \in wallet_first_seen }
  /\ holders' = {}
  /\ pc' = [c \in Chains |-> Spawned(c)]
  /\ loc' = [c \in Chains |-> LocInit]
  /\ lastRollback' = [c \in Chains |-> NoRollback]
  /\ handed' = [c \in Chains |-> 0]
  /\ UNCHANGED <<store, env, aux, cfg, faults, owed, enrichedOnce, aggregated>>

(* --------------------------- specification ---------------------------- *)
Configs == [watched : {TRUE}, start_block : {Some(1)}, batch_size : {BatchSize},
            decode_defi : BOOLEAN, rpc_ws : BOOLEAN]

InitStore ==
  /\ announced = [c \in Chains |-> <<>>]
  /\ transfers = {} /\ defi_events = {} /\ block_hashes = {}
  /\ indexer_state = [c \in Chains |-> None]
  /\ wallet_graph_edges = {} /\ wallet_first_seen = {}
  /\ known = {} /\ holders = {}
  /\ pc = [c \in Chains |-> Spawned(c)]
  /\ loc = [c \in Chains |-> LocInit]
  /\ faults = 0 /\ restarts = 0 /\ reorgs = 0
  /\ lastRollback = [c \in Chains |-> NoRollback]
  /\ owed = {} /\ enrichedOnce = {}
  /\ anomalies = {} /\ transfers_id_seq = 0
  /\ handed = [c \in Chains |-> 0]
  /\ aggregated = {}
  /\ shutdown = FALSE /\ supervisor = "waiting"
  /\ atCancel = [c \in Chains |-> NotInFlight]

\* one chain with valid tokens; the other chain's watched map is empty
Init ==
  /\ \E k \in Configs :
       cfg = [c \in Chains |-> IF c = 1 THEN k ELSE [k EXCEPT !.watched = FALSE]]
  /\ node = [c \in Chains |-> <<>>]
  /\ retry = NoRetry
  /\ call = NoCall
  /\ startup = NotLoading
  /\ InitStore

Step(c) ==
  \/ Start(c) \/ BfTip(c) \/ BfFetch(c)
  \/ Insert(c) \/ Lock(c) \/ Enrich(c) \/ Defi(c) \/ Ckpt(c)
  \/ Live(c) \/ WsNext(c) \/ LhInit(c) \/ LhPoll(c) \/ LhHeader(c)
  \/ PbReorg(c) \/ PbRollback(c) \/ PbLogs(c) \/ Hash(c) \/ Prune(c)

Next ==
  \/ \E c \in Chains : Step(c)
  \/ \E c \in Chains : Mine(c)
  \/ \E c \in Chains : Reorg(c)
  \/ Restart

Spec == Init /\ [][Next]_vars

\* two chains with valid tokens indexing side by side over HTTP, on nodes
\* that hold two blocks at the start and do not reorganise, in a process that
\* is not restarted
InitTwoChains ==
  /\ cfg = [c \in Chains |-> [watched |-> TRUE, start_block |-> Some(1),
                              batch_size |-> BatchSize,
                                 decode_defi |-> FALSE, rpc_ws |-> FALSE]]
  /\ node = [c \in Chains |-> <<0, 0>>]
  /\ retry = NoRetry
  /\ call = NoCall
  /\ startup = NotLoading
  /\ InitStore

StepTwoChains(c) ==
  \/ Start(c) \/ BfTip(c) \/ BfFetch(c)
  \/ Insert(c) \/ Lock(c) \/ Enrich(c) \/ Ckpt(c)
  \/ Live(c) \/ LhInit(c) \/ LhPoll(c) \/ LhHeader(c)
  \/ PbReorg(c) \/ PbLogs(c) \/ Hash(c) \/ Prune(c)

NextTwoChains ==
  \/ \E c \in Chains : StepTwoChains(c)
  \/ \E c \in Chains : Mine(c)

SpecTwoChains == InitTwoChains /\ [][NextTwoChains]_vars

\* shutdown: two chains with valid tokens, the first over WebSocket or HTTP,
\* the second over HTTP, on nodes that hold two blocks at the start and do not
\* reorganise; main cancels the token at any moment and joins the tasks
InitShutdown ==
  /\ \E ws \in BOOLEAN :
       cfg = [c \in Chains |-> [watched |-> TRUE, start_block |-> Some(1),
                                 batch_size |-> BatchSize,
                                 decode_defi |-> FALSE, rpc_ws |-> ws /\ c = 1]]
  /\ node = [c \in Chains |-> <<0, 0>>]
  /\ retry = NoRetry
  /\ call = NoCall
  /\ startup = NotLoading
  /\ InitStore

StepShutdown(c) ==
  \/ Start(c) \/ BfTip(c) \/ BfFetch(c)
  \/ Insert(c) \/ Lock(c) \/ Enrich(c) \/ Ckpt(c)
  \/ Live(c) \/ WsNext(c) \/ LhInit(c) \/ LhPoll(c) \/ LhHeader(c)
  \/ PbReorg(c) \/ PbLogs(c) \/ Hash(c) \/ Prune(c)
  \/ Shutdown(c)

NextShutdown ==
  \/ \E c \in Chains : StepShutdown(c)
  \/ \E c \in Chains : Mine(c)
  \/ Cancel
  \/ Join

SpecShutdown == InitShutdown /\ [][NextShutdown]_vars

\* shutdown of two chains with valid tokens: the first (over WebSocket or
\* HTTP) on a node that still grows, the second (over HTTP) on a node that has
\* produced all its blocks
InitShutdownStaggered ==
  /\ \E ws \in BOOLEAN :
       cfg = [c \in Chains |-> [watched |-> TRUE, start_block |-> Some(c),
                                 batch_size |-> BatchSize,
                                 decode_defi |-> FALSE, rpc_ws |-> ws /\ c = 1]]
  /\ node = [c \in Chains |-> IF c = 1 THEN <<0, 0>> ELSE [b \in 1..MaxBlock |-> 0]]
  /\ retry = NoRetry
  /\ call = NoCall
  /\ startup = NotLoading
  /\ InitStore

\* every call a task makes returns, the runtime schedules every task that
\* can run, and main is scheduled
FairSpecShutdown ==
  /\ InitShutdownStaggered /\ [][NextShutdown]_vars
  /\ \A c \in Chains : WF_vars(StepShutdown(c))
  /\ WF_vars(Join)

\* retry_rpc on its own: one call, for every operation given by the outcomes
\* of its first MaxCalls invocations; no chain is indexed
InitRetry ==
  /\ \E op \in [1..MaxCalls -> BOOLEAN] : retry = RetryEntered(op)
  /\ call = NoCall
  /\ startup = NotLoading
  /\ cfg = [c \in Chains |-> [watched |-> FALSE, start_block |-> None,
                               batch_size |-> BatchSize,
                                 decode_defi |-> FALSE, rpc_ws |-> FALSE]]
  /\ node = [c \in Chains |-> <<>>]
  /\ InitStore

NextRetry == RetryAttempt \/ RetrySleep \/ RetryFinal

SpecRetry == InitRetry /\ [][NextRetry]_vars

\* the operation and the sleep return
FairSpecRetry == SpecRetry /\ WF_vars(NextRetry)

(* ------------------------------ claims -------------------------------- *)
Checkpoint(c) == IF indexer_state[c] = None THEN 0 ELSE indexer_state[c][1]

RowsFrom(rows, c, b) == { r \in rows : r.chain_id = c /\ r.block_number >= b }

\* the checkpoint of chain c is written in this step
CheckpointWritten(c) == pc[c] = "ckpt" /\ indexer_state'[c] # indexer_state[c]

\* C1: checkpoint completeness. For every chain with a configured start block
\* and every block B at or below its checkpoint that no reorg replaced, every
\* watched-token Transfer log of canonical block B is represented by exactly
\* one transfer row.
C1_CheckpointCompleteness ==
  \A c \in Chains :
    cfg[c].watched /\ cfg[c].start_block # None =>
      \A b \in 1..Min(Checkpoint(c), Len(node[c])) :
        node[c][b] = 0 =>
          \A t \in LogsOf(c, b, 0) :
            Cardinality({ r \in transfers :
                            KeyOf(r) = KeyOf(t) /\ r.block_number = b }) = 1

\* C2: after the rollback that a live block N with a mismatching parent hash
\* triggers, no transfer, DeFi-event or block-hash row of the chain with
\* block_number >= N - 1 remains: the stale block N - 1 is discarded.
C2_RollbackDiscardsStaleParent ==
  \A c \in Chains :
    lastRollback[c].n > 0 =>
      /\ RowsFrom(transfers, c, lastRollback[c].n - 1) = {}
      /\ RowsFrom(defi_events, c, lastRollback[c].n - 1) = {}
      /\ RowsFrom(block_hashes, c, lastRollback[c].n - 1) = {}

\* C3: after a rollback that completed without error for the fork block F
\* that find_fork_point returned, no transfer, DeFi-event or block-hash row of
\* the chain with block_number >= F remains.
C3_NoRowsAtOrAboveFork ==
  \A c \in Chains :
    lastRollback[c].n > 0 =>
      /\ RowsFrom(transfers, c, lastRollback[c].f) = {}
      /\ RowsFrom(defi_events, c, lastRollback[c].f) = {}
      /\ RowsFrom(block_hashes, c, lastRollback[c].f) = {}

\* a rollback has just completed and it deleted transfer rows
C3_Witness ==
  \E c \in Chains : lastRollback[c].n > 0 /\ lastRollback[c].deleted > 0

\* C4: after a rollback to fork block F the chain's checkpoint is at most F - 1.
C4_CheckpointBelowFork ==
  \A c \in Chains :
    lastRollback[c].n > 0 => Checkpoint(c) <= lastRollback[c].f - 1

\* C5: a block at or above the fork point of a rollback, the triggering block
\* included, is indexed again before the checkpoint is advanced past it: no
\* checkpoint write leaves a rolled-back, not re-indexed block at or below the
\* checkpoint.
C5_RolledBackBlocksReindexed ==
  [][\A c \in Chains :
       CheckpointWritten(c) =>
         \A o \in owed' :
           o[1] = c /\ o[3] = "rollback" => Checkpoint(c)' < o[2]]_vars

\* C6: replay idempotence. Running the enrichment of a batch that has been
\* enriched before leaves the tables as they were.
C6_ReplayIdempotent ==
  [][\A c \in Chains :
       pc[c] = "enrich" /\ pc'[c] # "enrich" /\ loc[c].batch \in enrichedOnce =>
         /\ wallet_graph_edges' = wallet_graph_edges
         /\ wallet_first_seen' = wallet_first_seen
         /\ transfers' = transfers]_vars

TransferKeyUnique ==
  \A r1, r2 \in transfers : KeyOf(r1) = KeyOf(r2) => r1 = r2

\* C7: at most one transfer row exists per (chain_id, tx_hash, log_index), and
\* inserting a batch whose rows are all present already leaves the table
\* unchanged.
C7_UniqueTransferKey ==
  /\ []TransferKeyUnique
  /\ [][\A c \in Chains :
          pc[c] = "insert" /\ pc'[c] = "lock"
          /\ KeysOf(loc[c].batch) \subseteq KeysOf(transfers)
            => transfers' = transfers]_vars

\* a batch that was processed before has been inserted again after a restart,
\* and the table holds exactly the batch's rows
C7_Witness ==
  \E c \in Chains :
    /\ pc[c] = "lock" /\ restarts > 0 /\ reorgs = 0
    /\ loc[c].batch \in enrichedOnce
    /\ KeysOf(loc[c].batch) = KeysOf(transfers)
    /\ Cardinality(transfers) = Cardinality(loc[c].batch)

\* C8: after a database or enrichment failure in a block or range, that block
\* or range is processed again before the checkpoint is advanced to a higher
\* block: no checkpoint write leaves a failed, not re-processed block below
\* the checkpoint.
C8_FailedBlockRetriedFirst ==
  [][\A c \in Chains :
       CheckpointWritten(c) =>
         \A o \in owed' :
           o[1] = c /\ o[3] = "failure" => Checkpoint(c)' < o[2]]_vars

\* C9: a non-empty batch is persisted before its enrichment runs, and the
\* checkpoint write for its block or range is reached only after enrichment
\* has completed on exactly that batch, never after an enrichment error.
C9_PersistEnrichCheckpointOrder ==
  \A c \in Chains :
    /\ pc[c] = "enrich" => KeysOf(loc[c].batch) \subseteq KeysOf(transfers)
    /\ pc[c] = "ckpt" /\ loc[c].batch # {} =>
         /\ KeysOf(loc[c].batch) \subseteq KeysOf(transfers)
         /\ loc[c].batch \in enrichedOnce

\* a task stands at the checkpoint write of a non-empty batch
C9_Witness ==
  \E c \in Chains : pc[c] = "ckpt" /\ loc[c].batch # {}

\* C10: no two indexer tasks are inside enrich at once, a task inside enrich
\* holds the pipeline mutex, and the wallet tracker set changes only in a
\* step of the task that holds the mutex.
C10_EnrichMutualExclusion ==
  /\ [](/\ Cardinality({ c \in Chains : pc[c] = "enrich" }) <= 1
        /\ Cardinality(holders) <= 1
        /\ \A c \in Chains : pc[c] = "enrich" => c \in holders)
  /\ [][known' # known =>
          \E c \in Chains : holders = {c} /\ pc[c] = "enrich" /\ pc'[c] # "enrich"]_vars

\* one task is inside enrich while the other waits for the mutex
C10_Witness ==
  \E c, d \in Chains : pc[c] = "enrich" /\ pc[d] = "lock"

\* C11: within one chain and one run of its indexer, every block number
\* handed to processing (the first block of a backfill range, the block of a
\* live header) is strictly greater than every block number handed before.
C11_BlocksStrictlyAscending ==
  [][\A c \in Chains :
       /\ pc[c] \in {"ws_next", "lh_header"} /\ pc'[c] = "pb_reorg"
            => loc'[c].hdr.number > handed[c]
       /\ pc[c] = "bf_fetch" /\ pc'[c] \in {"insert", "ckpt"}
            => loc[c].cur > handed[c]]_vars

\* C12: every anomaly row refers to a transfer row that is in the store, also
\* after a rollback has deleted transfers.
C12_AnomalyHasTransfer ==
  \A a \in anomalies :
    /\ a.transfer_id # None
    /\ \E r \in transfers : r.id = a.transfer_id[1] /\ r.chain_id = a.chain_id

FirstSeenKeyUnique ==
  \A r1, r2 \in wallet_first_seen :
    r1.address = r2.address /\ r1.chain_id = r2.chain_id => r1 = r2

\* C13: at most one wallet_first_seen row exists per (address, chain_id), and
\* no step (a later batch, a replay, a rollback) changes or removes a row that
\* has been written.
C13_FirstSeenImmutable ==
  /\ []FirstSeenKeyUnique
  /\ [][\A r \in wallet_first_seen : r \in wallet_first_seen']_vars

\* a rollback has deleted the transfer that a first-seen row records, and a
\* later batch involving the row's address has been enriched
C13_Witness ==
  \E r \in wallet_first_seen :
    /\ ~\E t \in transfers : t.tx_hash = r.first_tx_hash
    /\ \E b \in enrichedOnce : \E t \in b :
         /\ t.chain_id = r.chain_id
         /\ r.address \in {t.from_address, t.to_address}
         /\ t.tx_hash # r.first_tx_hash
         /\ KeyOf(t) \in KeysOf(transfers)

\* C14: for every wallet_first_seen row, first_seen_at is at most the
\* block_timestamp of every transfer row of that chain that has the address
\* as sender or receiver.
C14_FirstSeenIsEarliest ==
  \A r \in wallet_first_seen : \A t \in transfers :
    t.chain_id = r.chain_id /\ r.address \in {t.from_address, t.to_address}
      => r.first_seen_at <= t.block_timestamp

\* the transfer rows of edge e
EdgeTransfers(e) ==
  { t \in transfers : EdgeKey(t) = <<e.source_address, e.dest_address, e.chain_id>> }

\* C15: while no reorg has happened and no task stands between the insert of
\* a batch and the end of its enrichment, every edge's transfer_count is the
\* number of transfer rows of the edge and its total_amount is their sum.
C15_EdgeTotalsMatchTransfers ==
  reorgs = 0 /\ (\A c \in Chains : pc[c] \notin {"lock", "enrich"}) =>
    \A e \in wallet_graph_edges :
      /\ e.transfer_count = Cardinality(EdgeTransfers(e))
      /\ e.total_amount = SumAmount(EdgeTransfers(e))

\* the timestamps of the transfers that were aggregated into edge e
EdgeTimestamps(e) ==
  { a[2] : a \in { x \in aggregated :
                      x[1] = <<e.source_address, e.dest_address, e.chain_id>> } }

\* C16: for every edge, first_seen is at most the earliest and last_seen at
\* least the latest block_timestamp of the transfers aggregated into it.
C16_EdgeSeenBounds ==
  \A e \in wallet_graph_edges :
    /\ e.first_seen <= MinOf(EdgeTimestamps(e))
    /\ e.last_seen >= MaxOf(EdgeTimestamps(e))

\* the watched Transfer logs of the blocks chain c's task had in flight when
\* the token was cancelled
LogsAtCancel(c) ==
  get_logs(c, MinOf(atCancel[c].blocks), MaxOf(atCancel[c].blocks))

\* the batch in flight at cancellation was committed as a whole
CommittedWhole(c) ==
  /\ Checkpoint(c) >= MaxOf(atCancel[c].blocks)
  /\ KeysOf(LogsAtCancel(c)) \subseteq KeysOf(transfers)
  /\ \/ LogsAtCancel(c) = {}
     \/ \E b \in enrichedOnce : KeysOf(b) = KeysOf(LogsAtCancel(c))

\* nothing of the batch in flight at cancellation is persisted
CommittedNothing(c) ==
  /\ Checkpoint(c) = atCancel[c].checkpoint
  /\ ~\E t \in transfers : t.chain_id = c /\ t.block_number \in atCancel[c].blocks

\* C17: when the token is cancelled while a task has a batch in flight, then
\* once that task has returned the batch is either committed as a whole
\* (transfers persisted, enrichment done, checkpoint at or past it) or not at
\* all (none of its transfers persisted, checkpoint as it was).
C17_ShutdownSafePoint ==
  \A c \in Chains :
    shutdown /\ pc[c] \in {"done", "failed"} /\ atCancel[c].blocks # {} =>
      CommittedWhole(c) \/ CommittedNothing(c)

\* C18: once the token is cancelled, every indexer task returns and main's
\* join over the handles completes.
C18_ShutdownTerminates ==
  shutdown ~> (supervisor = "exited" /\ \A c \in Chains : pc[c] \in {"done", "failed"})

\* main has exited after a cancellation that found one task inside a batch
\* and another in its HTTP polling loop
C18_Witness ==
  /\ supervisor = "exited"
  /\ \E c, d \in Chains : atCancel[c].blocks # {} /\ atCancel[d].blocks = {}

\* the wait before the k-th retry: 500 ms doubled k - 1 times, at most 30 s
RECURSIVE BackoffMs(_)
BackoffMs(k) == IF k = 1 THEN 500 ELSE Min(2 * BackoffMs(k - 1), 30000)

\* what retry_rpc has done so far is what the contract allows
RetryContract ==
  /\ retry.calls <= 6
  /\ \A k \in 1..Len(retry.slept) : retry.slept[k] = BackoffMs(k)
  /\ \A k \in 1..(retry.calls - 1) : ~retry.op[k]
  /\ Len(retry.slept) \in {retry.calls - 1, retry.calls}
  /\ retry.pc = "returned" =>
       /\ Len(retry.slept) = retry.calls - 1
       /\ retry.result = (IF retry.op[retry.calls] THEN "ok" ELSE "err")
       /\ retry.result = "err" => retry.calls = 6

\* C19: retry_rpc invokes the operation at most 6 times, returns the first
\* success without invoking it again, waits 500 ms before the first retry and
\* twice the previous wait (at most 30 s) before each following one, returns
\* an error only when the sixth invocation fails, and always returns.
C19_RetryRpcContract ==
  /\ []RetryContract
  /\ [][retry.pc = "returned" => retry' = retry]_vars
  /\ <>(retry.pc = "returned")

\* retry_rpc has returned the success of the sixth invocation, after five waits
C19_Witness ==
  retry.pc = "returned" /\ retry.result = "ok" /\ retry.calls = 6
  /\ retry.slept = <<500, 1000, 2000, 4000, 8000>>

\* C20: in live mode an RPC call that still fails after its retries (the tip
\* poll, the header fetch, the log fetch, the receipt fetch) does not end the
\* chain's indexer task.
C20_LiveRpcFailureNotFatal ==
  [][\A c \in Chains :
       (/\ loc[c].mode # "backfill"
        /\ pc[c] \in {"lh_poll", "lh_header", "pb_logs", "defi"}
        /\ faults' = faults + 1)
         => pc'[c] # "failed"]_vars

\* C21: while shutdown has not been requested, a task whose live indexing went
\* through the WebSocket subscription does not return because of it: when the
\* connection, the subscription or the established stream fails, the task goes
\* on with HTTP polling.
C21_WsFailureFallsBackToHttp ==
  [][\A c \in Chains :
       (/\ pc[c] \in {"live", "ws_next"}
        /\ cfg[c].rpc_ws
        /\ ~shutdown
        /\ restarts' = restarts)
         => pc'[c] \notin {"done", "failed"}]_vars

\* backfill on its own: one chain with valid tokens over HTTP, with or without
\* a configured start block, with every batch_size the configuration file
\* may hold up to BatchSize, on a node that has produced any number of blocks
\* and does not reorganise
InitBackfill ==
  /\ \E sb \in {None, Some(1), Some(2)}, bs \in 0..BatchSize :
       cfg = [c \in Chains |-> [watched |-> c = 1, start_block |-> sb, batch_size |-> bs,
                                 decode_defi |-> FALSE, rpc_ws |-> FALSE]]
  /\ \E n \in 0..MaxBlock : node = [c \in Chains |-> [b \in 1..n |-> 0]]
  /\ retry = NoRetry
  /\ call = NoCall
  /\ startup = NotLoading
  /\ InitStore

NextBackfill ==
  \/ \E c \in Chains : StepTwoChains(c)
  \/ \E c \in Chains : Mine(c)
  \/ Restart

SpecBackfill == InitBackfill /\ [][NextBackfill]_vars

\* the task of chain c is inside backfill's loop, working on [cur, to]
InRange(c) ==
  loc[c].mode = "backfill" /\ pc[c] \in {"insert", "lock", "enrich", "defi", "ckpt"}

\* the range in hand lies in [cursor, tip observed at backfill start] and
\* holds at most batch_size blocks; the cursor is one past the checkpoint
BackfillRanges ==
  \A c \in Chains :
    /\ InRange(c) =>
         /\ loc[c].to <= loc[c].tip
         /\ loc[c].to - loc[c].cur + 1 <= cfg[c].batch_size
    /\ loc[c].mode = "backfill" /\ pc[c] \in {"bf_tip", "bf_fetch"} \cup {"insert", "lock", "enrich", "defi", "ckpt"} =>
         loc[c].cur = (IF indexer_state[c] # None THEN indexer_state[c][1] + 1
                       ELSE cfg[c].start_block[1])

\* the steps of run_chain_indexer and backfill that the contract is about
BackfillSteps ==
  \A c \in Chains :
    \* resume: the cursor starts one past the checkpoint, else at start_block
    /\ pc[c] = "start" /\ pc'[c] = "bf_tip" =>
         loc'[c].cur = (IF indexer_state[c] # None THEN indexer_state[c][1] + 1
                        ELSE cfg[c].start_block[1])
    \* a range starts at the cursor
    /\ pc[c] = "bf_fetch" /\ InRange(c)' =>
         loc'[c].cur = loc[c].cur /\ loc'[c].tip = loc[c].tip
    \* after the range: checkpoint at its upper bound, and the next range
    \* starts right after it, past every block of this one
    /\ InRange(c) /\ pc'[c] = "bf_fetch" =>
         /\ indexer_state'[c] = Some(loc[c].to)
         /\ loc'[c].cur = loc[c].to + 1
         /\ loc'[c].cur > loc[c].cur
         /\ loc'[c].tip = loc[c].tip
    \* Live exactly when the cursor has passed the tip
    /\ pc[c] = "bf_fetch" /\ pc'[c] = "live" => loc[c].cur > loc[c].tip
    /\ pc[c] = "bf_fetch" /\ loc[c].cur > loc[c].tip /\ pc'[c] # pc[c] /\ restarts' = restarts =>
         pc'[c] = "live"

\* C22: the backfill cursor starts at last_checkpoint + 1 when a checkpoint
\* exists, else at the configured start block; backfill works through
\* consecutive, non-overlapping ranges of at most batch_size blocks that cover
\* [start, tip observed at backfill start], writes the checkpoint to each
\* range's upper bound after the range, and the task moves to live indexing
\* when the cursor passes that tip.
C22_ResumeAndBackfillCoverage ==
  []BackfillRanges /\ [][BackfillSteps]_vars

\* C23: with decode_defi on, the checkpoint is advanced past a block only
\* when the DeFi events of that block's transactions have been persisted.
C23_DefiEventsBeforeCheckpoint ==
  [][\A c \in Chains :
       cfg[c].decode_defi /\ CheckpointWritten(c) =>
         DefiOf(loc[c].batch) \subseteq defi_events]_vars

\* token addresses of a configuration file: well-formed, one character short
\* or long, a wrong prefix, and two that hold a two-byte character
Addresses ==
  { [head |-> <<"0", "x">>, ascii |-> address_len - 2, wide |-> 0],
    [head |-> <<"0", "x">>, ascii |-> address_len - 3, wide |-> 0],
    [head |-> <<"0", "x">>, ascii |-> address_len - 1, wide |-> 0],
    [head |-> <<"0", "X">>, ascii |-> address_len - 2, wide |-> 0],
    [head |-> <<"0", "x">>, ascii |-> address_len - 4, wide |-> 1],
    [head |-> <<"0", "x">>, ascii |-> address_len - 3, wide |-> 1] }

SeqsUpTo(S, n) == UNION { [1..k -> S] : k \in 0..n }

\* Config::load on its own, for every configuration file of up to MaxChains
\* chains with up to MaxTokens tokens each; no chain is indexed
InitLoad ==
  /\ \E chains \in SeqsUpTo(SeqsUpTo(Addresses, MaxTokens), MaxChains) :
       startup = [chains |-> chains, pc |-> "parsed"]
  /\ cfg = [c \in Chains |-> [watched |-> FALSE, start_block |-> None,
                               batch_size |-> BatchSize,
                               decode_defi |-> FALSE, rpc_ws |-> FALSE]]
  /\ node = [c \in Chains |-> <<>>]
  /\ retry = NoRetry
  /\ call = NoCall
  /\ InitStore

NextLoad == Load

SpecLoad == InitLoad /\ [][NextLoad]_vars

\* the defects the validation is to reject: no chain, a chain without tokens,
\* a token address that is not 42 characters beginning with "0x"
Defective(chains) ==
  \/ chains = <<>>
  \/ \E i \in 1..Len(chains) :
       \/ chains[i] = <<>>
       \/ \E j \in 1..Len(chains[i]) :
            ~(chars_count(chains[i][j]) = 42 /\ starts_with_0x(chains[i][j]))

\* C24: Config::load fails, and the process ends at startup, exactly for the
\* configurations with no chain, with a chain without tokens, or with a token
\* address that is not 42 characters beginning with "0x".
C24_ValidateRejectsExactlyDefects ==
  /\ startup.pc = "fatal" => Defective(startup.chains)
  /\ startup.pc = "loaded" => ~Defective(startup.chains)

\* a 32-byte word and a 20-byte address that are zero but for the bytes given
Word(b12, b32) == [i \in 1..32 |-> IF i = 12 THEN b12 ELSE IF i = 32 THEN b32 ELSE 0]
Addr(b20) == [i \in 1..20 |-> IF i = 20 THEN b20 ELSE 0]

\* a data payload of n bytes that are zero but for bytes 31, 32 and 33
Payload(n, b31, b32, b33) ==
  [i \in 1..n |-> IF i = 31 THEN b31 ELSE IF i = 32 THEN b32 ELSE IF i = 33 THEN b33 ELSE 0]

\* the watched map built from a configuration with two tokens
WatchedTokens ==
  [a \in {Addr(1), Addr(2)} |->
     IF a = Addr(1) THEN [symbol |-> "USDC", decimals |-> 6]
     ELSE [symbol |-> "DAI", decimals |-> 18]]

\* logs: of a watched or another contract, with up to four topics (event
\* signatures and words whose high 12 bytes are or are not zero) and a data
\* payload of 0, 31, 32 or 33 bytes
Logs ==
  [address : {Addr(1), Addr(2), Addr(3)},
   topics : SeqsUpTo({SIGNATURE_HASH, ApprovalSignature, Word(0, 1), Word(1, 2)}, 4),
   data : { Payload(n, b[1], b[2], b[3]) :
              n \in {0, 31, 32, 33}, b \in [1..3 -> {0, 1}] }]

\* decode_transfer_log on its own, for every such log; no chain is indexed
InitDecode ==
  /\ \E log \in Logs :
       call = [pc |-> "decode", log |-> log, watched_tokens |-> WatchedTokens, ret |-> None]
  /\ startup = NotLoading
  /\ cfg = [c \in Chains |-> [watched |-> FALSE, start_block |-> None,
                               batch_size |-> BatchSize,
                               decode_defi |-> FALSE, rpc_ws |-> FALSE]]
  /\ node = [c \in Chains |-> <<>>]
  /\ retry = NoRetry
  /\ InitStore

NextDecode == Decode

SpecDecode == InitDecode /\ [][NextDecode]_vars

\* the value of a byte string read as a big-endian number: byte i of n
\* counts 256^(n - i) times
RECURSIVE WeightedSum(_, _)
WeightedSum(bytes, I) ==
  IF I = {} THEN 0
  ELSE LET i == CHOOSE i \in I : TRUE
       IN  bytes[i] * 256^(Len(bytes) - i) + WeightedSum(bytes, I \ {i})
BigEndian(bytes) == WeightedSum(bytes, { i \in 1..Len(bytes) : bytes[i] # 0 })

\* the logs the decoder is to accept
IsWatchedTransfer(log, watched_tokens) ==
  /\ log.address \in DOMAIN watched_tokens
  /\ Len(log.topics) = 3
  /\ log.topics[1] = SIGNATURE_HASH
  /\ Len(log.data) >= 32

\* C25: decode_transfer_log returns a transfer exactly for the logs of a
\* watched contract with the Transfer signature as topic 0, three topics and
\* at least 32 bytes of data; from and to are then the low 20 bytes of
\* topics 1 and 2, the amount is the big-endian value of the first 32 data
\* bytes, symbol and decimals are those of the watched entry; for every other
\* log it returns None.
C25_DecodeTransferLog ==
  call.pc = "returned" =>
    LET log == call.log
        w == call.watched_tokens
    IN  IF IsWatchedTransfer(log, w)
        THEN /\ call.ret # None
             /\ call.ret[1].from = [i \in 1..20 |-> log.topics[2][i + 12]]
             /\ call.ret[1].to = [i \in 1..20 |-> log.topics[3][i + 12]]
             /\ call.ret[1].amount = BigEndian([i \in 1..32 |-> log.data[i]])
             /\ call.ret[1].token_symbol = w[log.address].symbol
             /\ call.ret[1].token_decimals = w[log.address].decimals
        ELSE call.ret = None

\* a Transfer of a watched token has been decoded from a log whose topics
\* carry non-zero bytes above the address and whose data is longer than one word
C25_Witness ==
  /\ call.pc = "returned" /\ call.ret # None
  /\ call.log.topics[2][12] = 1
  /\ Len(call.log.data) = 33 /\ call.log.data[33] = 1
  /\ call.ret[1].amount = 257

\* a transfer of the given raw amount
Transfer(c, from, to, symbol, decimals, amount) ==
  [chain_id |-> c, tx_hash |-> <<1, 0>>, log_index |-> 1, block_number |-> 1,
   block_hash |-> HashOf(1, 0), from_address |-> from, to_address |-> to,
   amount |-> amount, token_symbol |-> symbol, token_decimals |-> decimals,
   block_timestamp |-> TimestampOf(1, 0)]

\* the configuration with the given threshold map, tolerance and new-wallet threshold
EngineConfig(thresholds, tolerance, threshold_usd) ==
  [AnomalyConfig EXCEPT !.large_transfer_thresholds = thresholds,
                        !.round_number = [tolerance |-> tolerance],
                        !.new_wallet = [threshold_usd |-> threshold_usd]]

\* threshold maps of a configuration file: none (the default of config.rs), a
\* default entry, a token entry beside it, an entry for another token only
ThresholdMaps ==
  { <<>>,
    [k \in {"default"} |-> f64(100000)],
    [k \in {"default", "USDC"} |-> IF k = "USDC" THEN f64(50000) ELSE f64(100000)],
    [k \in {"DAI"} |-> f64(50000)] }

EnrichCall(t, config, label_store, kn) ==
  [pc |-> "enrich", transfer |-> t, config |-> config, label_store |-> label_store,
   known |-> kn, new_wallets |-> <<>>, ret |-> {}]

BothKnown == {<<"w1", 1>>, <<"w2", 1>>, <<"w1", 2>>, <<"w2", 2>>}

\* large transfers: amounts at and one hundredth (or one unit) below 50,000,
\* 100,000, 250,000, 500,000 and 1,000,000, of tokens with two or no decimals
LargeCalls ==
  { EnrichCall(Transfer(1, "w1", "w2", sym, d[1], d[2]),
               EngineConfig(m, 1, f64(10000)), NoLabels, BothKnown) :
      sym \in {"USDC", "USDT"},
      d \in UNION { { <<2, f64(h)>>, <<2, f64(h) - 1>>, <<0, h>>, <<0, h - 1>> } :
                      h \in {50000, 100000, 250000, 500000, 1000000} },
      m \in ThresholdMaps }

\* labels of one address: none, or one label that is sanctioned by type on
\* every chain, on chain 1, on chain 2, sanctioned by source on chain 2, or
\* an exchange
Label(address, chain_id, entity_type, label_source) ==
  [id |-> 1, address |-> address, chain_id |-> chain_id, entity_name |-> "entity",
   entity_type |-> entity_type, label_source |-> label_source]

LabelsOf(address) ==
  { <<>>,
    <<Label(address, None, "sanctioned", "manual")>>,
    <<Label(address, Some(1), "sanctioned", "manual")>>,
    <<Label(address, Some(2), "sanctioned", "manual")>>,
    <<Label(address, Some(2), "individual", "ofac_sdn")>>,
    <<Label(address, None, "exchange", "config")>> }

\* the store's map: the addresses that have labels, each with its list
StoreOf(l1, l2) ==
  [a \in { x \in {"w1", "w2"} : (IF x = "w1" THEN l1 ELSE l2) # <<>> } |->
     IF a = "w1" THEN l1 ELSE l2]

SanctionedCalls ==
  { EnrichCall(Transfer(c, "w1", "w2", "USDC", 2, f64(1)),
               EngineConfig(<<>>, 1, f64(10000)), StoreOf(l1, l2), BothKnown) :
      c \in Chains, l1 \in LabelsOf("w1"), l2 \in LabelsOf("w2") }

\* round numbers: amounts at, just below and between the bases
RoundAmounts ==
  { 99999, 100000, 100999, 101000, 150000, 199000, 199001, 499900, 500000, 504000, 750000,
    999999, 1000000, 1009999, 1010000, 1500000, 2000000, 2500000, 3000000, 4999900,
    5000000, 7500000, 9999900, 10000000, 10100000, 12500000, 15000000, 19950000, 20000000 }

RoundCalls ==
  { EnrichCall(Transfer(1, "w1", "w2", "USDC", 2, a),
               EngineConfig(<<>>, tol, f64(10000)), NoLabels, BothKnown) :
      a \in RoundAmounts, tol \in {1, 5} }

\* receipts by a wallet that the tracker has or has not seen, on this or on
\* the other chain, from a sender that it has or has not seen, or from itself
NewWalletCalls ==
  { EnrichCall(Transfer(c, from, "w2", "USDT", 2, a),
               EngineConfig(<<>>, 1, f64(10000)), NoLabels, kn) :
      c \in Chains, from \in {"w1", "w2"},
      a \in {f64(10000) - 1, f64(10000), f64(50000), f64(100000) - 1, f64(100000)},
      kn \in SUBSET {<<"w1", 1>>, <<"w2", 1>>, <<"w2", 2>>} }

\* TransferPipeline::enrich on its own, on one transfer; no chain is indexed
InitAnalyze ==
  /\ call \in LargeCalls \cup SanctionedCalls \cup RoundCalls \cup NewWalletCalls
  /\ startup = NotLoading
  /\ cfg = [c \in Chains |-> [watched |-> FALSE, start_block |-> None,
                               batch_size |-> BatchSize,
                               decode_defi |-> FALSE, rpc_ws |-> FALSE]]
  /\ node = [c \in Chains |-> <<>>]
  /\ retry = NoRetry
  /\ InitStore

NextAnalyze == Analyze

SpecAnalyze == InitAnalyze /\ [][NextAnalyze]_vars

\* the records of one type among those returned
OfType(recs, type) == { a \in recs : a.anomaly_type = type }

\* the address has a sanctioned label that applies on chain c
SanctionedOn(label_store, address, c) ==
  /\ address \in DOMAIN label_store
  /\ \E i \in 1..Len(label_store[address]) :
       /\ \/ label_store[address][i].entity_type = "sanctioned"
          \/ label_store[address][i].label_source = "ofac_sdn"
       /\ label_store[address][i].chain_id \in {None, Some(c)}

\* C26: the sanctioned-counterparty rule fires for a transfer on chain c only
\* if the sender or the receiver has a sanctioned label whose chain_id is null
\* or c; the record then has risk 95 and reports the sender if the sender is
\* sanctioned.
C26_SanctionedRuleChainScoped ==
  call.pc = "returned" =>
    LET t == call.transfer
        from_on == SanctionedOn(call.label_store, t.from_address, t.chain_id)
        to_on == SanctionedOn(call.label_store, t.to_address, t.chain_id)
    IN  \A a \in OfType(call.ret, "sanctioned_counterparty") :
          /\ from_on \/ to_on
          /\ a.risk_score = 95
          /\ from_on => a.address = Some(t.from_address)

\* the entity_labels table at startup: empty, one row, or two rows for w1
LabelRows ==
  { {},
    { [Label("w1", None, "sanctioned", "manual") EXCEPT !.id = 1] },
    { [Label("w1", Some(1), "exchange", "manual") EXCEPT !.id = 1],
      [Label("w1", None, "exchange", "manual") EXCEPT !.id = 2] } }

\* TransferPipeline::init and the first attribution on their own: a start on
\* some entity_labels table, then the seeding, then one transfer from w1 to
\* w2 on chain 1 or 2
InitSeed ==
  /\ \E rows \in LabelRows, c \in Chains :
       call = [pc |-> "init", entity_labels |-> rows, next_id |-> Cardinality(rows) + 1,
               by_address |-> <<>>, seeded |-> 0,
               transfer |-> Transfer(c, "w1", "w2", "USDC", 2, f64(1)),
               attributed |-> 0, flags |-> {}]
  /\ startup = NotLoading
  /\ cfg = [c \in Chains |-> [watched |-> FALSE, start_block |-> None,
                               batch_size |-> BatchSize,
                               decode_defi |-> FALSE, rpc_ws |-> FALSE]]
  /\ node = [c \in Chains |-> <<>>]
  /\ retry = NoRetry
  /\ InitStore

NextSeed == LoadLabels \/ SeedLabel \/ Attribute

SpecSeed == InitSeed /\ [][NextSeed]_vars

\* the entries of lookup(address) for one label
EntriesOf(by_address, r) ==
  { i \in 1..Len(by_address[r.address]) :
      SameLabel(by_address[r.address][i], r.address, r.chain_id, r.label_source,
                r.entity_name) }

\* C27: once the labels are loaded, every label of the entity_labels table
\* has exactly one entry in lookup(address), however often it was seeded and
\* whether or not it was there at startup; and the attribution of a transfer
\* counts what it flags: one per label and transfer side.
C27_SeedLabelIdempotent ==
  call.pc \in {"seeding", "attributed"} =>
    /\ \A r \in call.entity_labels :
         /\ r.address \in DOMAIN call.by_address
         /\ Cardinality(EntriesOf(call.by_address, r)) = 1
    /\ call.pc = "attributed" => call.attributed = Cardinality(call.flags)

\* the amount of the transfer in hundredths of a token, from its raw amount
\* and the token's decimals
HumanAmount(t) ==
  IF t.token_decimals = 2 THEN t.amount ELSE t.amount * 100

\* the threshold the large-transfer rule is stated to use
StatedThreshold(thresholds, token_symbol) ==
  IF token_symbol \in DOMAIN thresholds THEN thresholds[token_symbol]
  ELSE IF "default" \in DOMAIN thresholds THEN thresholds["default"]
  ELSE 100000 * 100

\* C28: the engine returns a large_transfer record exactly when the human
\* amount reaches the threshold (the token's entry, else the "default"
\* entry, else 100,000, also when the map is empty); it returns one such
\* record, of risk 80 from ten times the threshold, 60 from five times, 40
\* otherwise.
C28_LargeTransferRule ==
  call.pc = "returned" =>
    LET t == call.transfer
        threshold == StatedThreshold(call.config.large_transfer_thresholds, t.token_symbol)
        large == OfType(call.ret, "large_transfer")
    IN  /\ large # {} <=> HumanAmount(t) >= threshold
        /\ Cardinality(large) <= 1
        /\ \A a \in large :
             a.risk_score = IF HumanAmount(t) >= 10 * threshold THEN 80
                            ELSE IF HumanAmount(t) >= 5 * threshold THEN 60 ELSE 40

\* the round bases, in hundredths
RoundBases == { b * 100 : b \in {100000, 50000, 25000, 10000, 5000, 1000} }

\* (amount mod base) / base is less than tolerance or more than 1 - tolerance,
\* tolerance in hundredths
NearMultiple(amount, base, tolerance) ==
  LET r == amount % base
  IN  r * 100 < tolerance * base \/ (base - r) * 100 < tolerance * base

\* risk 40 for base 100k, 30 for bases 10k to 50k, 20 for smaller bases
RiskOfBase(base) ==
  IF base = 100000 * 100 THEN 40 ELSE IF base >= 10000 * 100 THEN 30 ELSE 20

\* the round_number records the engine is to return when base decides
RoundOutcome(recs, fires, base) ==
  IF fires THEN Cardinality(recs) = 1 /\ \A a \in recs : a.risk_score = RiskOfBase(base)
  ELSE recs = {}

\* C29 as stated: only the largest base that is at most the amount is
\* examined; the rule fires iff that base matches, and an amount that does
\* not match it yields no round_number record.
C29_RoundNumberFirstBaseOnly ==
  call.pc = "returned" =>
    LET amount == HumanAmount(call.transfer)
        below == { b \in RoundBases : b <= amount }
        round == OfType(call.ret, "round_number")
    IN  IF below = {} THEN round = {}
        ELSE RoundOutcome(round,
                          NearMultiple(amount, MaxOf(below), call.config.round_number.tolerance),
                          MaxOf(below))

\* C29, amended: the bases that are at most the amount are examined from the
\* largest down and the first one that matches decides; the rule fires iff
\* some such base matches, with the risk of the largest matching base, and
\* yields no round_number record iff none matches.
C29_RoundNumberFirstMatchingBase ==
  call.pc = "returned" =>
    LET amount == HumanAmount(call.transfer)
        matching == { b \in RoundBases :
                        /\ b <= amount
                        /\ NearMultiple(amount, b, call.config.round_number.tolerance) }
        round == OfType(call.ret, "round_number")
    IN  IF matching = {} THEN round = {}
        ELSE RoundOutcome(round, TRUE, MaxOf(matching))

\* 125,000 at tolerance 0.01: 100k and 50k do not match, 25k does; risk 30
C29_Witness ==
  /\ call.pc = "returned"
  /\ HumanAmount(call.transfer) = 125000 * 100
  /\ call.config.round_number.tolerance = 1
  /\ \E a \in call.ret : a.anomaly_type = "round_number" /\ a.risk_score = 30

\* the scenario: the call has returned for 50,000 USDT, at threshold 10,000,
\* into an address that the tracker had not seen on the transfer's chain
ReceiveScenario ==
  /\ call.pc = "returned"
  /\ call.transfer.token_symbol = "USDT"
  /\ HumanAmount(call.transfer) = 50000 * 100
  /\ call.config.new_wallet.threshold_usd = 10000 * 100
  /\ <<call.transfer.to_address, call.transfer.chain_id>> \notin call.known

\* exactly one new_wallet_large_receive record, of the given risk
OneReceiveRecord(risk) ==
  LET recs == OfType(call.ret, "new_wallet_large_receive")
  IN  Cardinality(recs) = 1 /\ \A a \in recs : a.risk_score = risk

\* C30 as stated: 50,000 USDT into an address previously unseen on that
\* chain, threshold 10,000, yields exactly one new_wallet_large_receive
\* record, of risk 80.
C30_NewWalletReceiveRisk80 ==
  ReceiveScenario => OneReceiveRecord(80)

\* C30, amended: 50,000 USDT sent by another address into an address
\* previously unseen on that chain, threshold 10,000, yields exactly one
\* new_wallet_large_receive record, of risk 60.
C30_NewWalletReceiveRisk60 ==
  (ReceiveScenario /\ call.transfer.from_address # call.transfer.to_address)
    => OneReceiveRecord(60)

\* the scenario has been run, the receiver being known on the other chain only
C30_Witness ==
  /\ ReceiveScenario
  /\ call.transfer.from_address # call.transfer.to_address
  /\ call.transfer.chain_id = 1
  /\ <<call.transfer.to_address, 2>> \in call.known
  /\ OneReceiveRecord(60)

\* the n-th transfer of a sender on a chain, at a given time
Sent(c, from, n, timestamp) ==
  [Transfer(c, from, "w2", "USDC", 2, 1) EXCEPT !.tx_hash = <<n, c>>,
                                                  !.block_timestamp = timestamp]

\* the transfers table when a batch of sender w1 on chain 1 is analysed:
\* `before` transfers of w1 in the 1000 s before the batch's first transfer
\* (at time 5000), optionally one at the far edge of the window of 3600 s,
\* one of another sender and one of w1 on chain 2, and the batch itself: its
\* first transfer and `later` more, each 10 s after the previous
VelocityTable(before, edge, others, later) ==
  { Sent(1, "w1", n, 4000 + n) : n \in 1..before }
    \cup { Sent(1, "w1", 100, 1400) : n \in 1..edge }
    \cup { Sent(1, "w3", 101, 4990) : n \in 1..others }
    \cup { Sent(2, "w1", 102, 4990) : n \in 1..others }
    \cup { Sent(1, "w1", 200 + n, 5000 + 10 * n) : n \in 0..later }

VelocityBatch(later) == { Sent(1, "w1", 200 + n, 5000 + 10 * n) : n \in 0..later }

\* TransferPipeline::enrich's anomaly step on its own; no chain is indexed
InitVelocity ==
  /\ \E before \in {0, 1, 2, 9, 10, 11, 49, 50, 59}, edge \in {0, 1}, others \in {0, 1},
        later \in {0, 1, 2}, max_transfers \in {2, 10} :
       call = [pc |-> "analyze",
               config |-> [EngineConfig(<<>>, 1, f64(10000)) EXCEPT
                             !.velocity = [window_secs |-> 3600,
                                           max_transfers |-> max_transfers]],
               xfers |-> { WithId(t, t.tx_hash[1]) :
                             t \in VelocityTable(before, edge, others, later) },
               batch |-> VelocityBatch(later),
               ret |-> {}]
  /\ startup = NotLoading
  /\ cfg = [c \in Chains |-> [watched |-> FALSE, start_block |-> None,
                               batch_size |-> BatchSize,
                               decode_defi |-> FALSE, rpc_ws |-> FALSE]]
  /\ node = [c \in Chains |-> <<>>]
  /\ retry = NoRetry
  /\ InitStore

NextVelocity == AnalyzeBatch

SpecVelocity == InitVelocity /\ [][NextVelocity]_vars

\* the transfers of t's sender on t's chain in the window that ends at t
PriorInWindow(xfers, t, window_secs) ==
  { r \in xfers : /\ r.from_address = t.from_address
                  /\ r.chain_id = t.chain_id
                  /\ r.block_timestamp > t.block_timestamp - window_secs
                  /\ r.block_timestamp <= t.block_timestamp }

\* C31: for every transfer t of the batch, the engine returns a velocity
\* record for t exactly when the transfers of t's sender on t's chain within
\* window_secs before t's timestamp (t included, later transfers not) number
\* more than max_transfers; its risk is 70 when they number more than five
\* times max_transfers and 50 otherwise.
C31_VelocityCountsWindowBefore ==
  call.pc = "analyzed" =>
    \A t \in call.batch :
      LET count == Cardinality(PriorInWindow(call.xfers, t, call.config.velocity.window_secs))
          max == call.config.velocity.max_transfers
          recs == { a \in OfType(call.ret, "velocity") :
                      a.tx_hash = t.tx_hash /\ a.log_index = t.log_index }
      IN  /\ recs # {} <=> count > max
          /\ \A a \in recs : a.risk_score = IF count > 5 * max THEN 70 ELSE 50

\* one RPC call at any of the call sites, for every operation given by the
\* outcomes of its first MaxCalls invocations; no chain is indexed
InitRpc ==
  /\ \E site \in RpcSites, op \in [1..MaxCalls -> BOOLEAN] :
       call = [pc |-> "rpc", site |-> site, op |-> op]
  /\ retry = NoRetry
  /\ startup = NotLoading
  /\ cfg = [c \in Chains |-> [watched |-> FALSE, start_block |-> None,
                               batch_size |-> BatchSize,
                               decode_defi |-> FALSE, rpc_ws |-> FALSE]]
  /\ node = [c \in Chains |-> <<>>]
  /\ InitStore

NextRpc == RpcCall \/ RetryAttempt \/ RetrySleep \/ RetryFinal

SpecRpc == InitRpc /\ [][NextRpc]_vars

\* C32: at every RPC call site the error of a call is surfaced only after
\* the retries with their back-off sleeps: the operation has then been
\* invoked max_retries + 1 times and has failed every time, so a call whose
\* first invocation fails and whose second succeeds returns Ok.
C32_EveryRpcCallRetried ==
  (call.pc = "called" /\ retry.pc = "returned") =>
    /\ retry.result = "err" =>
         /\ retry.calls = max_retries + 1
         /\ Len(retry.slept) = max_retries
         /\ \A k \in 1..Min(retry.calls, Len(retry.op)) : ~retry.op[k]
    /\ (~call.op[1] /\ call.op[2]) => retry.result = "ok"

\* the i-th transfer of the stream: in block i, from and to among two addresses
Tracked(i, c, from, to) ==
  [Transfer(c, from, to, "USDC", 2, 1) EXCEPT !.tx_hash = <<i, 0>>, !.block_number = i,
                                                !.block_hash = HashOf(i, 0),
                                                !.block_timestamp = TimestampOf(i, 0)]

\* the wallet_first_seen table at startup: empty, w1 on chain 1, or w2 on
\* chain 1 and w1 on chain 2 (rows of an earlier run, of block 0)
StoredFirstSeen ==
  { {},
    { NewWalletEvent(Tracked(0, 1, "w1", "w2"), "w1", "from") },
    { NewWalletEvent(Tracked(0, 1, "w1", "w2"), "w2", "to"),
      NewWalletEvent(Tracked(0, 2, "w1", "w2"), "w1", "from") } }

\* WalletTracker on its own: load_from_db on some table, then the batches of
\* a stream of MaxTracked transfers; no chain is indexed
InitTracker ==
  /\ \E rows \in StoredFirstSeen,
        s \in [1..MaxTracked -> Chains \X {"w1", "w2"} \X {"w1", "w2"}] :
       call = [pc |-> "tracking",
               loaded |-> { <<r.address, r.chain_id>> : r \in rows },
               known |-> { <<r.address, r.chain_id>> : r \in rows },
               rows |-> rows,
               stream |-> [i \in 1..MaxTracked |-> Tracked(i, s[i][1], s[i][2], s[i][3])],
               done |-> 0, emitted |-> <<>>]
  /\ startup = NotLoading
  /\ cfg = [c \in Chains |-> [watched |-> FALSE, start_block |-> None,
                               batch_size |-> BatchSize,
                               decode_defi |-> FALSE, rpc_ws |-> FALSE]]
  /\ node = [c \in Chains |-> <<>>]
  /\ retry = NoRetry
  /\ InitStore

NextTracker == TrackBatch

SpecTracker == InitTracker /\ [][NextTracker]_vars

\* the sides of the first n transfers of the stream in scan order: side
\* 2i - 1 is the sender of transfer i, side 2i its receiver
SideTransfer(stream, p) == stream[(p + 1) \div 2]
SideAddress(stream, p) ==
  IF p % 2 = 1 THEN SideTransfer(stream, p).from_address
  ELSE SideTransfer(stream, p).to_address
SideKey(stream, p) == <<SideAddress(stream, p), SideTransfer(stream, p).chain_id>>

\* the sides that are the first sighting of a pair the store did not hold
FirstSightings(loaded, stream, n) ==
  { p \in 1..(2 * n) : /\ SideKey(stream, p) \notin loaded
                       /\ \A q \in 1..(p - 1) : SideKey(stream, q) # SideKey(stream, p) }

TransferRows(c, blocks) == { WithId(Tracked(b, c, "w1", "w2"), 10 * c + b) : b \in blocks }
DefiRows(c, blocks) ==
  { [chain_id |-> c, tx_hash |-> <<b, 0>>, log_index |-> 0, block_number |-> b] : b \in blocks }
HashRows(c, blocks) ==
  { [chain_id |-> c, block_number |-> b, block_hash |-> HashOf(b, 0)] : b \in blocks }

\* a rollback on its own: block N of chain c has arrived and the stored hash
\* of N - 1 differs from its parent hash; hashes of earlier blocks are stored
\* or not (backfilled, skipped or pruned blocks have none), transfers and DeFi
\* events of the chain exist for some blocks up to N, and the other chain has
\* rows for every block
InitRollback ==
  /\ \E c \in Chains, n \in 2..(MaxBlock + 1), max_depth \in 0..ReorgDepth, deletes \in 1..3 :
     \E hashed \in SUBSET (1..(n - 2)), indexed \in SUBSET (1..n) :
       LET other == CHOOSE d \in Chains : d # c
       IN  call = [pc |-> "rollback", chain_id |-> c, block_number |-> n,
                   max_reorg_depth |-> max_depth, deletes |-> deletes, fork_block |-> 0,
                   block_hashes |-> HashRows(c, hashed \cup {n - 1})
                                      \cup HashRows(other, 1..n),
                   transfers |-> TransferRows(c, indexed) \cup TransferRows(other, 1..n),
                   defi_events |-> DefiRows(c, indexed) \cup DefiRows(other, 1..n),
                   before |-> [transfers |-> TransferRows(c, indexed) \cup TransferRows(other, 1..n),
                               defi_events |-> DefiRows(c, indexed) \cup DefiRows(other, 1..n),
                               block_hashes |-> HashRows(c, hashed \cup {n - 1})
                                                  \cup HashRows(other, 1..n)]]
  /\ startup = NotLoading
  /\ cfg = [c \in Chains |-> [watched |-> FALSE, start_block |-> None,
                               batch_size |-> BatchSize,
                               decode_defi |-> FALSE, rpc_ws |-> FALSE]]
  /\ node = [c \in Chains |-> <<>>]
  /\ retry = NoRetry
  /\ InitStore

NextRollback == Rollback

SpecRollback == InitRollback /\ [][NextRollback]_vars

\* C34: the fork point of a rollback at block N lies between
\* max(0, N - max_reorg_depth) and N, and the rollback deletes no transfer,
\* DeFi-event or block-hash row below N - max_reorg_depth and no row of
\* another chain.
C34_RollbackBoundedByDepth ==
  call.pc = "rolled_back" =>
    LET low == Max(0, call.block_number - call.max_reorg_depth)
        deleted == (call.before.transfers \ call.transfers)
                     \cup (call.before.defi_events \ call.defi_events)
                     \cup (call.before.block_hashes \ call.block_hashes)
    IN  /\ low <= call.fork_block /\ call.fork_block <= call.block_number
        /\ \A r \in deleted : r.chain_id = call.chain_id /\ r.block_number >= low

\* a rollback at block 4 with depth 1 has deleted rows and kept those of
\* blocks 1 and 2
C34_Witness ==
  /\ call.pc = "rolled_back"
  /\ call.block_number = 4 /\ call.max_reorg_depth = 1
  /\ call.before.transfers # call.transfers
  /\ \E r \in call.transfers : r.chain_id = call.chain_id /\ r.block_number = 2
  /\ \E r \in call.block_hashes : r.chain_id = call.chain_id /\ r.block_number = 1

\* two chains with valid tokens and DeFi decoding, indexing side by side over
\* HTTP on nodes that hold two blocks at the start and do not reorganise
InitMutex ==
  /\ cfg = [c \in Chains |-> [watched |-> TRUE, start_block |-> Some(1),
                              batch_size |-> BatchSize,
                              decode_defi |-> TRUE, rpc_ws |-> FALSE]]
  /\ node = [c \in Chains |-> <<0, 0>>]
  /\ retry = NoRetry
  /\ call = NoCall
  /\ startup = NotLoading
  /\ InitStore

StepMutex(c) == StepTwoChains(c) \/ Defi(c)

NextMutex ==
  \/ \E c \in Chains : StepMutex(c)
  \/ \E c \in Chains : Mine(c)

SpecMutex == InitMutex /\ [][NextMutex]_vars

\* C35: a task holds the pipeline's guard only while it is at enrich: not at
\* an RPC call, the transfer insert, the receipt fetch, the block-hash or
\* checkpoint write, and not after enrich has returned, Ok or Err; so a task
\* that waits for the lock while no task is at enrich finds it free.
C35_GuardHeldOnlyDuringEnrich ==
  /\ \A c \in holders : pc[c] = "enrich"
  /\ \A c \in Chains :
       (pc[c] = "lock" /\ \A d \in Chains \ {c} : pc[d] # "enrich")
         => lock_available(holders)

\* chain 1 is enriching under the guard while chain 2 fetches receipts
C35_Witness ==
  /\ pc[1] = "enrich" /\ 1 \in holders
  /\ pc[2] = "defi"

\* C36: when the live loop starts, the first block it will process is
\* checkpoint + 1: the HTTP loop starts with last_block equal to the
\* checkpoint (after a backfill, after a skipped backfill and after a failed
\* WebSocket connection), and a WebSocket subscription starts when the next
\* block of the node is checkpoint + 1.
C36_LiveStartsAtCheckpointPlusOne ==
  [][\A c \in Chains :
       /\ (pc[c] = "lh_init" /\ pc'[c] = "lh_poll")
            => loc'[c].last + 1 = Checkpoint(c) + 1
       /\ (pc[c] = "live" /\ pc'[c] = "ws_next")
            => get_block_number(c) + 1 = Checkpoint(c) + 1]_vars

\* C37: no step lowers a chain's last_indexed_block: a stored checkpoint
\* stays stored and its block number never decreases, across live headers at
\* or below it and across restarts.
C37_CheckpointNeverDecreases ==
  [][\A c \in Chains :
       indexer_state[c] # None =>
         /\ indexer_state'[c] # None
         /\ indexer_state'[c][1] >= indexer_state[c][1]]_vars

\* C38: wallet tracker cache consistency. In every reachable state each
\* (address, chain_id) pair in the tracker's in-memory known set has a
\* persisted wallet_first_seen row; a failed first-seen insert does not leave
\* the pair in the in-memory set.
C38_KnownPairsArePersisted ==
  \A k \in known :
    \E r \in wallet_first_seen : r.address = k[1] /\ r.chain_id = k[2]

\* C39: backfill terminates for every configuration that validation accepts,
\* batch_size = 0 included: the range of an iteration is not empty
\* (to_block >= current), the iteration leaves the cursor strictly higher and
\* the checkpoint it writes is not below the iteration's first block.
C39_BackfillIterationAdvances ==
  [][\A c \in Chains :
       /\ (pc[c] = "bf_fetch" /\ InRange(c)') => loc'[c].to >= loc'[c].cur
       /\ (InRange(c) /\ pc[c] = "ckpt" /\ pc'[c] = "bf_fetch") =>
            /\ loc'[c].cur > loc[c].cur
            /\ indexer_state'[c] # None
            /\ indexer_state'[c][1] >= loc[c].cur]_vars

\* C40: reorg detection covers every indexed predecessor. Whenever
\* process_new_block is handed a live block N whose predecessor N-1 has been
\* indexed (the checkpoint is at or above N-1), by backfill or by the live
\* loop, a block-hash row for N-1 exists, so that the parent hash of N is
\* compared with the hash of the indexed block N-1.
C40_PredecessorHashStored ==
  \A c \in Chains :
    (/\ pc[c] = "pb_reorg"
     /\ loc[c].hdr.number - 1 >= 1
     /\ indexer_state[c] # None
     /\ indexer_state[c][1] >= loc[c].hdr.number - 1)
      => get_block_hash(block_hashes, c, loc[c].hdr.number - 1) # {}

====
